---- MODULE Spec2Model ----
(***************************************************************************)
(* A model of the card compositing pipeline of generate-card-images:       *)
(*   card_generator.py      determine_font_size, _draw_justified_text,     *)
(*                          CardGenerator.create_card                      *)
(*   generate_all_cards.py  generate_card_from_notion_row and its loop     *)
(*   generate_pdf_cut_lines.py, generate_home_pdf.py   the PDF drivers     *)
(*                                                                         *)
(* Texts are sequences of one-character strings.  Integers are Python's    *)
(* unbounded integers.                                                     *)
(***************************************************************************)
EXTENDS Integers, Sequences, FiniteSets, TLC

VARIABLES
    fs_site,      \* which caller of determine_font_size is exercised
    fs_args,      \* its arguments: min/max_char_size, min/max_font_size
    text_length,  \* len(text) of the text passed to determine_font_size
    fs_pc,        \* "ready" before the call, "returned" after it
    font_size,    \* the value determine_font_size returned
    jt_text,      \* _draw_justified_text: the text argument
    jt_box,       \* its x, y and max_width arguments
    jt_font,      \* its font argument: point size and glyph advances
    jt_pc,        \* "ready" before the call, "returned" after it
    lines,        \* the lines built by the wrapping loop, each a list of words
    jt_draws,     \* the draw.text calls issued, in order
    readable,     \* the image and font files that can be opened
    generator,    \* the CardGenerator: output_size, bg_color_primary/secondary
    cc_args,      \* create_card's arguments
    cc_pc,        \* the layer create_card is about to apply
    card,         \* the canvas, as the operations applied to it so far
    cc_raised,    \* the exception create_card propagated, or "none"
    probe,        \* one position of the canvas: what each layer holds there
    px,           \* the pixel of the canvas at that position
    finished,     \* the earlier calls of create_card: arguments and returned card
    driver,       \* the batch driver that runs
    notion_rows,  \* the records fetch_notion_card_database returned
    full_run,     \* outputs/full_run: slug -> whether its directory exists, its files
    dr_pc,        \* where the driver is: "loop", then its later phases, "done", "aborted"
    idx,          \* the number of records the driver's loop has gone through
    builds,       \* what generate_card_from_notion_row did for each of them
    printed,      \* the per-record messages printed, in order
    disk,         \* the card files on disk: saved cards and temporary images
    card_images,  \* generate_home_pdf: the temporary path of each card, or NoImage
    pages,        \* the PDF: the pages shown so far, each the items drawn on it
    page,         \* the items drawn on the page being composed
    page_idx,     \* generate_home_pdf: the sheet (front and back page) being composed
    page_num,     \* generate_home_pdf: its page counter, printed as the total
    uncaught,     \* the exception that ended the driver, or "none"
    im_op,        \* the image function called: apply_color_mapping, recolor, ...
    im_self,      \* the CardGenerator it is called on
    im_args,      \* its arguments
    im_pc,        \* "ready" before the call, "returned" after it
    im_result,    \* the image it returned
    im_image,     \* the pixels of the image object the caller passed, as they are now
    im_object,    \* the object it returned: the caller's ("argument") or another
    sc_path,      \* the output_path passed to save_card
    sc_pc,        \* where save_card stands: "makedirs", "save", "returned", "raised"
    sc_raised,    \* the exception save_card raised, "none" if none
    sc_dirs,      \* the directories of the file system
    sc_files,     \* its regular files with what they hold
    nt_args,      \* fetch_notion_card_database: fields, the response, the suit cache
    nt_pc,        \* "ready" before the call, "returned" or "raised" after it
    nt_result     \* the list of records it returned

fs_vars == <<fs_site, fs_args, text_length, fs_pc, font_size>>
jt_vars == <<jt_text, jt_box, jt_font, jt_pc, lines, jt_draws>>

cc_vars == <<readable, generator, cc_args, cc_pc, card, cc_raised, probe, px, finished>>

dr_vars == <<driver, notion_rows, full_run, dr_pc, idx, builds, printed, disk,
             card_images, pages, page, page_idx, page_num, uncaught>>

im_vars == <<im_op, im_self, im_args, im_pc, im_result, im_image, im_object>>

sc_vars == <<sc_path, sc_pc, sc_raised, sc_dirs, sc_files>>

nt_vars == <<nt_args, nt_pc, nt_result>>

vars == <<fs_vars, jt_vars, cc_vars, dr_vars, im_vars, sc_vars, nt_vars, nt_vars>>

(***************************************************************************)
(* Bounds of the model.                                                    *)
(***************************************************************************)
MaxCharSize == 4    \* generic length thresholds are drawn from 0..MaxCharSize
MaxFontSize == 3    \* generic font sizes are drawn from -MaxFontSize..MaxFontSize
LenMargin == 2      \* text lengths run to the upper threshold plus LenMargin
MaxTextLen == 7     \* justified texts have at most MaxTextLen characters
MaxWidth == 6       \* max_width of a justified block is drawn from 1..MaxWidth
MaxDescrLen == 3    \* descriptions given to create_card have at most MaxDescrLen characters
MaxRows == 2        \* a batch driver gets at most MaxRows records
MaxImageWidth == 2  \* sample images are 1 pixel high and 1..MaxImageWidth wide
MaxLogoSize == 2    \* the logo of a chess pattern is resized to 1..MaxLogoSize
MaxPatternCells == 2  \* a chess pattern is at most MaxPatternCells cells and a pixel wide

(***************************************************************************)
(* card_generator.py: determine_font_size                                  *)
(***************************************************************************)

\* A plausible slip: round() in place of int().
PyRound(num, den) ==
    (2 * num + den) \div (2 * den)

\* Python's int(num / den) for den > 0: truncation toward zero.  The float
\* quotient of the source is exact here: it is an integer when den divides
\* num, and otherwise at least 1/den away from one.
PyInt(num, den) ==
    IF num >= 0 THEN num \div den ELSE -((-num) \div den)

\* The interpolation without the two branches that stop it at the ends.
determine_font_size_unclamped(length, min_char_size, max_char_size, min_font_size, max_font_size) ==
    PyInt(max_font_size * (max_char_size - min_char_size)
            - (length - min_char_size) * (max_font_size - min_font_size),
          max_char_size - min_char_size)

\* A plausible slip: the two branches' sizes exchanged.
determine_font_size_swapped(length, min_char_size, max_char_size, min_font_size, max_font_size) ==
    IF length < min_char_size THEN min_font_size
    ELSE IF length > max_char_size THEN max_font_size
    ELSE PyInt(max_font_size * (max_char_size - min_char_size)
                 - (length - min_char_size) * (max_font_size - min_font_size),
               max_char_size - min_char_size)

determine_font_size(length, min_char_size, max_char_size, min_font_size, max_font_size) ==
    IF length < min_char_size THEN max_font_size
    ELSE IF length > max_char_size THEN min_font_size
    ELSE PyInt(max_font_size * (max_char_size - min_char_size)
                 - (length - min_char_size) * (max_font_size - min_font_size),
               max_char_size - min_char_size)

\* create_card's title sizing, with the title's sizing arguments.
title_font_size(name_length) ==
    determine_font_size(name_length, 10, 30, 28, 45)

\* A plausible slip: the description sized with the title's arguments.
descr_font_size_as_title(description_length) ==
    determine_font_size(description_length, 10, 30, 28, 45)

\* create_card's description sizing.
descr_font_size(description_length) ==
    determine_font_size(description_length, 100, 200, 30, 40)

Args(a, b, c, d) ==
    [min_char_size |-> a, max_char_size |-> b, min_font_size |-> c, max_font_size |-> d]

\* Argument sets with min_char_size < max_char_size and min_font_size <= max_font_size.
GenericArgs ==
    { Args(a, b, c, d) : a \in 0..MaxCharSize, b \in 0..MaxCharSize,
                         c \in -MaxFontSize..MaxFontSize, d \in -MaxFontSize..MaxFontSize }

ValidArgs == { p \in GenericArgs : p.min_char_size < p.max_char_size
                                   /\ p.min_font_size <= p.max_font_size }

TitleArgs == Args(10, 30, 28, 45)
DescrArgs == Args(100, 200, 30, 40)

Lengths(p) == 0..(p.max_char_size + LenMargin)

\* The sizing calls are not exercised.
FontIdle ==
    /\ fs_site = "none" /\ fs_args = Args(0, 1, 0, 0) /\ text_length = 0
    /\ fs_pc = "idle" /\ font_size = 0

\* _draw_justified_text is not exercised.
JustifyIdle ==
    /\ jt_text = <<>> /\ jt_box = [x |-> 0, y |-> 0, max_width |-> 0]
    /\ jt_font = [size |-> 0, em |-> 0] /\ jt_pc = "idle" /\ lines = <<>> /\ jt_draws = <<>>

\* create_card is not exercised.
CardIdle ==
    /\ readable = {} /\ generator = [raised |-> "none"] /\ cc_args = [name |-> <<>>]
    /\ cc_pc = "idle" /\ card = <<>> /\ cc_raised = "none"
    /\ probe = <<>> /\ px = <<>> /\ finished = <<>>

\* No batch driver runs.
DriverIdle ==
    /\ driver = "none" /\ notion_rows = <<>> /\ full_run = <<>> /\ dr_pc = "idle"
    /\ idx = 0 /\ builds = <<>> /\ printed = <<>> /\ disk = {} /\ card_images = <<>>
    /\ pages = <<>> /\ page = <<>> /\ page_idx = 0 /\ page_num = 0
    /\ uncaught = "none"

\* No image function is exercised.
ImageIdle ==
    /\ im_op = "none" /\ im_self = [raised |-> "none"] /\ im_args = <<>>
    /\ im_pc = "idle" /\ im_result = <<>>
    /\ im_image = <<>> /\ im_object = "none"

\* save_card is not exercised.
SaveIdle ==
    /\ sc_path = <<>> /\ sc_pc = "idle" /\ sc_raised = "none"
    /\ sc_dirs = {} /\ sc_files = <<>>

\* fetch_notion_card_database is not exercised.
NotionIdle == nt_args = <<>> /\ nt_pc = "idle" /\ nt_result = <<>>

FontInit ==
    /\ JustifyIdle /\ CardIdle /\ DriverIdle /\ ImageIdle /\ SaveIdle /\ NotionIdle
    /\ fs_site \in {"generic", "title", "description"}
    /\ fs_args \in CASE fs_site = "generic" -> ValidArgs
                     [] fs_site = "title" -> {TitleArgs}
                     [] fs_site = "description" -> {DescrArgs}
    /\ text_length \in Lengths(fs_args)
    /\ fs_pc = "ready"
    /\ font_size = 0

\* A direct call of determine_font_size.
DetermineFontSize ==
    /\ fs_pc = "ready" /\ fs_site = "generic"
    /\ font_size' = determine_font_size(text_length, fs_args.min_char_size,
                        fs_args.max_char_size, fs_args.min_font_size, fs_args.max_font_size)
    /\ fs_pc' = "returned"
    /\ UNCHANGED <<fs_site, fs_args, text_length, jt_vars, cc_vars, dr_vars, im_vars, sc_vars, nt_vars>>

\* create_card sizing the title.
TitleFontSize ==
    /\ fs_pc = "ready" /\ fs_site = "title"
    /\ font_size' = title_font_size(text_length)
    /\ fs_pc' = "returned"
    /\ UNCHANGED <<fs_site, fs_args, text_length, jt_vars, cc_vars, dr_vars, im_vars, sc_vars, nt_vars>>

\* create_card sizing the description.
DescrFontSize ==
    /\ fs_pc = "ready" /\ fs_site = "description"
    /\ font_size' = descr_font_size(text_length)
    /\ fs_pc' = "returned"
    /\ UNCHANGED <<fs_site, fs_args, text_length, jt_vars, cc_vars, dr_vars, im_vars, sc_vars, nt_vars>>

FontNext == DetermineFontSize \/ TitleFontSize \/ DescrFontSize

SpecFont == FontInit /\ [][FontNext]_vars

(***************************************************************************)
(* Claims about determine_font_size (checked under SpecFont).              *)
(***************************************************************************)

\* The size the exercised caller computes for a text of length m.
SizeAt(m) ==
    CASE fs_site = "generic" ->
            determine_font_size(m, fs_args.min_char_size, fs_args.max_char_size,
                                fs_args.min_font_size, fs_args.max_font_size)
      [] fs_site = "title" -> title_font_size(m)
      [] fs_site = "description" -> descr_font_size(m)

\* r is the rational num/den (den > 0) truncated toward zero.
IsTruncation(r, num, den) ==
    IF num >= 0 THEN den * r <= num /\ num < den * (r + 1)
    ELSE den * (r - 1) < num /\ num <= den * r

\* The interpolated size, times the span of the length thresholds.
ScaledInterpolation ==
    fs_args.max_font_size * (fs_args.max_char_size - fs_args.min_char_size)
      - (text_length - fs_args.min_char_size)
          * (fs_args.max_font_size - fs_args.min_font_size)

\* C4: determine_font_size returns max_size below min_len, min_size above
\* max_len, and between them max_size - (len - min_len)*(max_size - min_size)
\* /(max_len - min_len) truncated to an integer, for every length and every
\* argument set with min_len < max_len and min_size <= max_size.
C4_FontSizeFormula ==
    fs_pc = "returned" =>
        IF text_length < fs_args.min_char_size THEN font_size = fs_args.max_font_size
        ELSE IF text_length > fs_args.max_char_size THEN font_size = fs_args.min_font_size
        ELSE IsTruncation(font_size, ScaledInterpolation,
                          fs_args.max_char_size - fs_args.min_char_size)

\* A call in the interpolation range whose exact value is no integer.
C4_Witness ==
    /\ fs_pc = "returned" /\ fs_site = "generic"
    /\ text_length > fs_args.min_char_size /\ text_length < fs_args.max_char_size
    /\ ScaledInterpolation % (fs_args.max_char_size - fs_args.min_char_size) # 0
    /\ ScaledInterpolation > 0

\* C5: the size never grows with the text length, is exactly max_size for
\* every length <= min_len and exactly min_size for every length >= max_len.
C5_FontSizeMonotone ==
    fs_pc = "returned" =>
        /\ \A m \in 0..text_length : SizeAt(m) >= font_size
        /\ text_length <= fs_args.min_char_size => font_size = fs_args.max_font_size
        /\ text_length >= fs_args.max_char_size => font_size = fs_args.min_font_size

\* A call at the upper threshold itself whose size is strictly below the
\* size of the text one character shorter.
C5_Witness ==
    /\ fs_pc = "returned"
    /\ text_length = fs_args.max_char_size
    /\ font_size = fs_args.min_font_size
    /\ SizeAt(text_length - 1) > font_size

\* C6: create_card renders a description of exactly 100 characters at size
\* 40, one of exactly 200 characters at size 30, one of 150 at size 35.
C6_DescriptionSizes ==
    (fs_pc = "returned" /\ fs_site = "description") =>
        /\ text_length = 100 => font_size = 40
        /\ text_length = 150 => font_size = 35
        /\ text_length = 200 => font_size = 30

\* The description of 150 characters has been sized.
C6_Witness ==
    /\ fs_pc = "returned" /\ fs_site = "description"
    /\ text_length = 150 /\ font_size = 35

(***************************************************************************)
(* card_generator.py: CardGenerator._draw_justified_text                   *)
(*                                                                         *)
(* A font is its point size and the pixels per font unit (em); a glyph's   *)
(* advance is em times its width in font units.  The width draw.textbbox   *)
(* reports for a text is the sum of the advances of its characters (no     *)
(* kerning, no side bearings).                                             *)
(***************************************************************************)
Chars == {"a", "b", " "}

IsSpace(c) == c = " "

\* The advance of a glyph in font units: "b" is twice as wide as the others.
GlyphUnits(c) == IF c = "b" THEN 2 ELSE 1

\* A small font: one pixel per font unit.
SmallFont(size) == [size |-> size, em |-> 1]

RECURSIVE TextWidth(_, _)
TextWidth(text, font) ==
    IF text = <<>> THEN 0
    ELSE font.em * GlyphUnits(Head(text)) + TextWidth(Tail(text), font)

\* bbox = draw.textbbox((0, 0), text, font=font); bbox[2] - bbox[0]
textbbox_width(text, font) == TextWidth(text, font)

\* A plausible slip: text.split(" "), which yields the empty words between
\* and around single spaces.
RECURSIVE SplitOnEverySpace(_, _, _)
SplitOnEverySpace(text, cur, acc) ==
    IF text = <<>> THEN Append(acc, cur)
    ELSE IF IsSpace(Head(text)) THEN SplitOnEverySpace(Tail(text), <<>>, Append(acc, cur))
    ELSE SplitOnEverySpace(Tail(text), Append(cur, Head(text)), acc)

split_on_space(text) == SplitOnEverySpace(text, <<>>, <<>>)

\* str.split(): the maximal runs of non-whitespace characters, in order.
RECURSIVE SplitRuns(_, _, _)
SplitRuns(text, cur, acc) ==
    IF text = <<>> THEN (IF cur = <<>> THEN acc ELSE Append(acc, cur))
    ELSE IF IsSpace(Head(text))
         THEN SplitRuns(Tail(text), <<>>, IF cur = <<>> THEN acc ELSE Append(acc, cur))
         ELSE SplitRuns(Tail(text), Append(cur, Head(text)), acc)

split(text) == SplitRuns(text, <<>>, <<>>)

\* " ".join(words)
RECURSIVE join(_)
join(words) ==
    IF words = <<>> THEN <<>>
    ELSE IF Len(words) = 1 THEN words[1]
    ELSE words[1] \o <<" ">> \o join(Tail(words))

\* A plausible slip: a line is kept only while strictly narrower than max_width.
fits_strictly(text_width, max_width) == text_width < max_width

\* if text_width <= max_width
fits(text_width, max_width) == text_width <= max_width

\* The wrapping loop without the statements after it that close the line
\* still open (if current_line: lines.append(current_line)).
RECURSIVE BuildLines_last_line_open(_, _, _, _, _, _)
BuildLines_last_line_open(words, i, closed, current_line, max_width, font) ==
    IF i > Len(words)
    THEN closed
    ELSE LET word == words[i]
             test_line == Append(current_line, word)
             text_width == textbbox_width(join(test_line), font)
         IN  IF fits(text_width, max_width)
             THEN BuildLines_last_line_open(words, i + 1, closed, test_line, max_width, font)
             ELSE BuildLines_last_line_open(words, i + 1,
                                            IF current_line # <<>>
                                            THEN Append(closed, current_line)
                                            ELSE closed,
                                            <<word>>, max_width, font)

\* The wrapping loop over words[i..]: the state of the loop is the closed
\* lines and the current line.
RECURSIVE BuildLines(_, _, _, _, _, _)
BuildLines(words, i, closed, current_line, max_width, font) ==
    IF i > Len(words)
    THEN (IF current_line # <<>> THEN Append(closed, current_line) ELSE closed)
    ELSE LET word == words[i]
             test_line == Append(current_line, word)
             text_width == textbbox_width(join(test_line), font)
         IN  IF fits(text_width, max_width)
             THEN BuildLines(words, i + 1, closed, test_line, max_width, font)
             ELSE BuildLines(words, i + 1,
                             IF current_line # <<>> THEN Append(closed, current_line)
                             ELSE closed,
                             <<word>>, max_width, font)

\* A plausible slip: only single-word lines are left alone, the last line is
\* justified like the others.
left_aligned_single_only(i, n_lines, line_words) == Len(line_words) = 1

\* if is_last_line or len(line_words) == 1   (i counts lines from 1)
left_aligned(i, n_lines, line_words) == i = n_lines \/ Len(line_words) = 1

\* A plausible slip: the slack divided by the number of words, not of gaps.
space_per_gap_by_words(extra_space, line_words) ==
    IF Len(line_words) > 1 THEN extra_space \div Len(line_words) ELSE 0

\* extra_space // (len(line_words) - 1) if len(line_words) > 1 else 0
\* (Python's floor division; the divisor is positive)
space_per_gap(extra_space, line_words) ==
    IF Len(line_words) > 1 THEN extra_space \div (Len(line_words) - 1) ELSE 0

DrawCall(x, y, text) == [xy |-> <<x, y>>, text |-> text]

\* The inner loop of a justified line: one draw.text per word from word j on.
RECURSIVE DrawWords(_, _, _, _, _, _)
DrawWords(line_words, j, current_x, current_y, gap, font) ==
    IF j > Len(line_words) THEN <<>>
    ELSE <<DrawCall(current_x, current_y, line_words[j])>>
         \o DrawWords(line_words, j + 1,
                      current_x + textbbox_width(line_words[j], font)
                                + textbbox_width(<<" ">>, font) + gap,
                      current_y, gap, font)

\* The draw calls of line i.
DrawLine(all_lines, i, x, current_y, max_width, font) ==
    LET line_words == all_lines[i]
        line_text == join(line_words)
    IN  IF left_aligned(i, Len(all_lines), line_words)
        THEN <<DrawCall(x, current_y, line_text)>>
        ELSE LET line_width == textbbox_width(line_text, font)
                 extra_space == max_width - line_width
             IN  DrawWords(line_words, 1, x, current_y,
                           space_per_gap(extra_space, line_words), font)

\* line_height = font.size + 5
line_height(font) == font.size + 5

\* The drawing loop over the lines from line i on.
RECURSIVE DrawLines(_, _, _, _, _, _)
DrawLines(all_lines, i, x, current_y, max_width, font) ==
    IF i > Len(all_lines) THEN <<>>
    ELSE DrawLine(all_lines, i, x, current_y, max_width, font)
         \o DrawLines(all_lines, i + 1, x, current_y + line_height(font), max_width, font)

\* _draw_justified_text(draw, text, x, y, max_width, font): the lines it
\* builds and the draw.text calls it issues.
draw_justified_text(text, x, y, max_width, font) ==
    LET built == BuildLines(split(text), 1, <<>>, <<>>, max_width, font)
    IN  [lines |-> built, draws |-> DrawLines(built, 1, x, y, max_width, font)]

RECURSIVE TextsUpTo(_)
TextsUpTo(n) ==
    IF n = 0 THEN {<<>>}
    ELSE LET shorter == TextsUpTo(n - 1)
         IN  shorter \cup { Append(t, c) : t \in {u \in shorter : Len(u) = n - 1}, c \in Chars }

JustifyInit ==
    /\ FontIdle /\ CardIdle /\ DriverIdle /\ ImageIdle /\ SaveIdle /\ NotionIdle
    /\ jt_text \in TextsUpTo(MaxTextLen)
    /\ jt_box \in [x : {0, 50}, y : {800}, max_width : 1..MaxWidth]
    /\ jt_font \in {SmallFont(30)}
    /\ jt_pc = "ready"
    /\ lines = <<>>
    /\ jt_draws = <<>>

\* One call of _draw_justified_text on a fresh drawing context.
DrawJustifiedText ==
    /\ jt_pc = "ready"
    /\ LET r == draw_justified_text(jt_text, jt_box.x, jt_box.y, jt_box.max_width, jt_font)
       IN  lines' = r.lines /\ jt_draws' = r.draws
    /\ jt_pc' = "returned"
    /\ UNCHANGED <<jt_text, jt_box, jt_font, fs_vars, cc_vars, dr_vars, im_vars, sc_vars, nt_vars>>

JustifyNext == DrawJustifiedText

SpecJustify == JustifyInit /\ [][JustifyNext]_vars

(***************************************************************************)
(* Claims about _draw_justified_text (checked under SpecJustify).          *)
(***************************************************************************)

\* The natural width of a line: its words joined by single spaces.
NaturalWidth(line_words) == textbbox_width(join(line_words), jt_font)

\* The y coordinate of line i and the draw calls issued at it, in order.
LineY(i) == jt_box.y + (i - 1) * (jt_font.size + 5)

LineDraws(i) == SelectSeq(jt_draws, LAMBDA d : d.xy[2] = LineY(i))

\* Where a draw call's text ends.
RightEdge(d) == d.xy[1] + textbbox_width(d.text, jt_font)

\* C7: lines are broken greedily: a line of two or more words is at most
\* max_width wide, every line is maximal (it would exceed max_width with the
\* first word of the next line appended), and a word wider than max_width
\* stands alone on its line.
C7_GreedyLines ==
    jt_pc = "returned" =>
        /\ \A i \in 1..Len(lines) :
              Len(lines[i]) >= 2 => NaturalWidth(lines[i]) <= jt_box.max_width
        /\ \A i \in 1..(Len(lines) - 1) :
              NaturalWidth(Append(lines[i], lines[i + 1][1])) > jt_box.max_width
        /\ \A i \in 1..Len(lines) : \A j \in 1..Len(lines[i]) :
              textbbox_width(lines[i][j], jt_font) > jt_box.max_width
                  => Len(lines[i]) = 1
        /\ \A w \in {split(jt_text)[n] : n \in 1..Len(split(jt_text))} :
              textbbox_width(w, jt_font) > jt_box.max_width
                  => \E i \in 1..Len(lines) : lines[i] = <<w>>

\* A paragraph with a line of several words that fills max_width exactly,
\* followed by a word wider than max_width standing alone.
C7_Witness ==
    /\ jt_pc = "returned"
    /\ \E i \in 1..(Len(lines) - 1) :
          /\ Len(lines[i]) >= 2
          /\ NaturalWidth(lines[i]) = jt_box.max_width
          /\ Len(lines[i + 1]) = 1
          /\ NaturalWidth(lines[i + 1]) > jt_box.max_width

\* C8: on every line of two or more words that is not the last, the slack
\* max_width - natural width is >= 0, every gap gets slack div (words - 1)
\* extra pixels, and the rendered line is max_width minus the remainder r
\* of that division, 0 <= r <= words - 2.
C8_JustifiedWidth ==
    jt_pc = "returned" =>
        \A i \in 1..(Len(lines) - 1) :
            Len(lines[i]) >= 2 =>
                LET k == Len(lines[i])
                    slack == jt_box.max_width - NaturalWidth(lines[i])
                    ds == LineDraws(i)
                IN  /\ slack >= 0
                    /\ Len(ds) = k
                    /\ ds[1].xy[1] = jt_box.x
                    /\ \A j \in 1..k : ds[j].text = lines[i][j]
                    /\ \A j \in 1..(k - 1) :
                          ds[j + 1].xy[1] - RightEdge(ds[j])
                              = textbbox_width(<<" ">>, jt_font) + slack \div (k - 1)
                    /\ LET r == jt_box.max_width - (RightEdge(ds[k]) - ds[1].xy[1])
                       IN  r = slack % (k - 1) /\ 0 <= r /\ r <= k - 2

\* A justified line of three words whose slack leaves a remainder pixel.
C8_Witness ==
    /\ jt_pc = "returned"
    /\ \E i \in 1..(Len(lines) - 1) :
          /\ Len(lines[i]) = 3
          /\ (jt_box.max_width - NaturalWidth(lines[i])) % 2 = 1
          /\ Len(LineDraws(i)) = 3

\* C9: the last line, and every line of exactly one word, is drawn by one
\* draw call at the block's x with its natural spacing, whatever its width;
\* only a line that is not the last and has two or more words is drawn word
\* by word.
C9_LeftAligned ==
    jt_pc = "returned" =>
        /\ \A i \in 1..Len(lines) :
              (i = Len(lines) \/ Len(lines[i]) = 1)
                  => LineDraws(i) = <<DrawCall(jt_box.x, LineY(i), join(lines[i]))>>
        /\ \A i \in 1..Len(lines) :
              Len(LineDraws(i)) # 1 => (i < Len(lines) /\ Len(lines[i]) >= 2)

\* A last line of two words narrower than max_width (so stretching would
\* move its second word), below a single over-wide word that is not last.
C9_Witness ==
    /\ jt_pc = "returned"
    /\ Len(lines) >= 2
    /\ Len(lines[Len(lines)]) >= 2
    /\ NaturalWidth(lines[Len(lines)]) < jt_box.max_width
    /\ Len(LineDraws(Len(lines))) = 1
    /\ Len(lines[1]) = 1
    /\ NaturalWidth(lines[1]) > jt_box.max_width

(***************************************************************************)
(* card_generator.py: colours, CardGenerator.__init__                      *)
(*                                                                         *)
(* A hex colour is the sequence of its characters, "#" first.              *)
(***************************************************************************)
HexDigits == <<"0", "1", "2", "3", "4", "5", "6", "7", "8", "9",
               "A", "B", "C", "D", "E", "F">>

\* int(c, 16) of one hexadecimal digit (upper or lower case).
HexValue(c) ==
    CASE c = "a" -> 10 [] c = "b" -> 11 [] c = "c" -> 12
      [] c = "d" -> 13 [] c = "e" -> 14 [] c = "f" -> 15
      [] OTHER -> (CHOOSE v \in 0..15 : HexDigits[v + 1] = c)

\* tuple(int(hex_color[i : i + 2], 16) for i in (1, 3, 5))
color_hex_to_tuple(hex_color) ==
    <<16 * HexValue(hex_color[2]) + HexValue(hex_color[3]),
      16 * HexValue(hex_color[4]) + HexValue(hex_color[5]),
      16 * HexValue(hex_color[6]) + HexValue(hex_color[7])>>

\* isinstance(color, str) and color.startswith("#")
\* (an RGB tuple has three components, a hex string seven characters)
IsHexString(color) == Len(color) = 7 /\ color[1] = "#"

\* The parameters CardGenerator.__init__ accepts besides self.
CardGeneratorParams == {"full_card_size", "bg_color_primary", "bg_color_secondary"}

\* CardGenerator(**kwargs): the generator built, or the TypeError Python
\* raises for a keyword the signature does not have.
CardGenerator(kwargs) ==
    IF ~(DOMAIN kwargs \subseteq CardGeneratorParams)
    THEN [raised |-> "TypeError"]
    ELSE LET arg(k, default) == IF k \in DOMAIN kwargs THEN kwargs[k] ELSE default
             primary == arg("bg_color_primary", <<255, 255, 255>>)
             secondary == arg("bg_color_secondary", <<240, 240, 240>>)
         IN  [raised |-> "none",
              output_size |-> arg("full_card_size", <<750, 1050>>),
              bg_color_primary |->
                  IF IsHexString(primary) THEN color_hex_to_tuple(primary) ELSE primary,
              bg_color_secondary |->
                  IF IsHexString(secondary) THEN color_hex_to_tuple(secondary)
                  ELSE secondary]

(***************************************************************************)
(* generate_all_cards.py: the style tables                                 *)
(***************************************************************************)
\* primary (vibrant), secondary (lighter)
SUIT_COLOR_MAP ==
       (<<"C", "h", "a", "t">> :> <<<<"#", "D", "3", "2", "F", "2", "F">>, <<"#", "F", "F", "8", "B", "8", "B">>>>)
    @@ (<<"L", "i", "e", "u">> :> <<<<"#", "7", "E", "7", "E", "7", "E">>, <<"#", "9", "E", "9", "E", "9", "E">>>>)
    @@ (<<"R", "i", "t", "u", "e", "l">> :> <<<<"#", "1", "9", "7", "6", "D", "2">>, <<"#", "6", "3", "B", "7", "F", "D">>>>)
    @@ (<<"E", "s", "p", "r", "i", "t">> :> <<<<"#", "3", "8", "8", "E", "3", "C">>, <<"#", "C", "8", "E", "6", "C", "9">>>>)
    @@ (<<"F", "e", "s", "t", "i", "v", "a", "l">> :> <<<<"#", "F", "D", "8", "0", "C", "3">>, <<"#", "F", "F", "D", "D", "E", "D">>>>)
    @@ (<<"D", "e", "m", "o", "n">> :> <<<<"#", "7", "B", "1", "F", "A", "2">>, <<"#", "E", "1", "B", "E", "E", "7">>>>)
    @@ (<<"R", "e", "l", "i", "q", "u", "e">> :> <<<<"#", "F", "F", "E", "1", "0", "0">>, <<"#", "F", "F", "F", "B", "D", "3">>>>)
    @@ (<<"I", "d", "o", "l", "e">> :> <<<<"#", "F", "5", "7", "C", "0", "0">>, <<"#", "F", "8", "C", "5", "7", "8">>>>)
    @@ (<<"N", "o", "u", "r", "r", "i", "t", "u", "r", "e">> :> <<<<"#", "8", "D", "6", "E", "6", "3">>, <<"#", "D", "7", "C", "C", "C", "8">>>>)
    @@ (<<"P", "o", "t", "i", "o", "n">> :> <<<<"#", "0", "0", "C", "9", "B", "1">>, <<"#", "B", "2", "E", "B", "F", "2">>>>)

LOGO_MAP ==
       (<<"C", "h", "a", "t">> :> "paw.png")
    @@ (<<"L", "i", "e", "u">> :> "place.png")
    @@ (<<"R", "i", "t", "u", "e", "l">> :> "yoga.png")
    @@ (<<"E", "s", "p", "r", "i", "t">> :> "lotus.png")
    @@ (<<"F", "e", "s", "t", "i", "v", "a", "l">> :> "party.png")
    @@ (<<"D", "e", "m", "o", "n">> :> "demon.png")
    @@ (<<"R", "e", "l", "i", "q", "u", "e">> :> "vase.png")
    @@ (<<"I", "d", "o", "l", "e">> :> "star.png")
    @@ (<<"N", "o", "u", "r", "r", "i", "t", "u", "r", "e">> :> "burger.png")
    @@ (<<"P", "o", "t", "i", "o", "n">> :> "potion.png")

(***************************************************************************)
(* card_generator.py: CardGenerator.create_card                            *)
(*                                                                         *)
(* The canvas is the sequence of operations applied to it.  An image or    *)
(* font file opens when it is in `readable`; the decorative assets have    *)
(* the sample sizes of AssetSize.                                          *)
(***************************************************************************)
TITLE_FONT == "fonts/DynaPuff-VariableFont_wdth,wght.ttf"
TEXT_FONT == "fonts/Sniglet-Regular.ttf"
NUMBER_FONT == "fonts/EagleLake-Regular.ttf"

SCROLL_IMAGE == "inputs/flat_scroll_cartoon.png"
FLAG_IMAGE == "inputs/vertical_flag.png"
GLYPH_IMAGE == "inputs/glyph_colored.png"

\* (width, height) of the image a decorative asset file holds.
AssetSize(path) ==
    CASE path = SCROLL_IMAGE -> <<2000, 900>>
      [] path = FLAG_IMAGE -> <<220, 640>>
      [] OTHER -> <<1024, 1024>>

\* ImageFont.truetype(path, size): four font units to the point size.
truetype(size) == [size |-> size, em |-> size \div 4]

\* draw.textbbox((0, 0), text, font=font) as (left, top, right, bottom): the
\* glyphs start a quarter of the point size below the origin.
textbbox(text, font) ==
    IF text = <<>> THEN <<0, 0, 0, 0>>
    ELSE <<0, font.size \div 4, textbbox_width(text, font), font.size>>

\* int(height * (target_width / width) * tenths/10)
scaled_height(size, target_width, tenths) ==
    (size[2] * target_width * tenths) \div (size[1] * 10)

\* str(n) for 0 <= n <= 99
str(n) ==
    LET digit(d) == HexDigits[d + 1]
    IN  IF n < 10 THEN <<digit(n)>> ELSE <<digit(n \div 10), digit(n % 10)>>

\* An operation on the canvas.  `size` is the size of a pasted image (and
\* <<0, 0>> for a drawing operation).
Op(op, what, xy, size, masked, text, colors) ==
    [op |-> op, what |-> what, xy |-> xy, size |-> size, masked |-> masked,
     text |-> text, colors |-> colors]

Paste(what, xy, size, masked) == Op("paste", what, xy, size, masked, <<>>, <<>>)

Text(what, xy, text, fill) == Op("text", what, xy, <<0, 0>>, FALSE, text, <<fill>>)

\* create_rounded_card_base(): white fill, light-gray outline
rounded_card_base ==
    <<Op("rounded_rectangle", "base", <<0, 0>>, <<0, 0>>, FALSE, <<>>,
         <<<<255, 255, 255>>, <<200, 200, 200>>>>)>>

scroll_height == scaled_height(AssetSize(SCROLL_IMAGE), 1000, 6)

flag_height == scaled_height(AssetSize(FLAG_IMAGE), 110, 7)

\* The title: centred horizontally, vertically within the scroll.
title_ops(output_size, name) ==
    LET font_large == truetype(title_font_size(Len(name)))
        bbox == textbbox(name, font_large)
        text_width == bbox[3] - bbox[1]
        text_height == bbox[4] - bbox[2]
        text_x == (output_size[1] - text_width) \div 2
        text_y == -20 + (scroll_height - text_height) \div 2 - 10
    IN  <<Text("title", <<text_x, text_y>>, name, <<0, 0, 0>>)>>

\* A plausible slip: the two targets of the flag's recolor exchanged.
flag_ops_primary_for_black(bg_color_primary) ==
    <<Op("paste", "flag", <<10, 70>>, <<110, flag_height>>, TRUE, <<>>,
         <<bg_color_primary, color_hex_to_tuple(<<"#", "0", "0", "0", "0", "0", "0">>)>>)>>

\* The flag: recoloured (black_target, white_target), resized, pasted through
\* its own alpha.
flag_ops(bg_color_primary) ==
    <<Op("paste", "flag", <<10, 70>>, <<110, flag_height>>, TRUE, <<>>,
         <<color_hex_to_tuple(<<"#", "0", "0", "0", "0", "0", "0">>), bg_color_primary>>)>>

\* The suit name, drawn on a padded temporary image, rotated by 90 degrees
\* and centred on the flag.
suit_label_ops(card_suit) ==
    LET suit_font == truetype(40)
        suit_bbox == textbbox(card_suit, suit_font)
        suit_text_width == suit_bbox[3] - suit_bbox[1]
        suit_text_height == suit_bbox[4] - suit_bbox[2]
        rotated_width == suit_text_height + 20
        rotated_height == suit_text_width + 20
        suit_x == 10 + (110 - rotated_width) \div 2
        suit_y == 70 + (flag_height - rotated_height) \div 2
    IN  <<Op("paste", "suit_label", <<suit_x, suit_y>>, <<rotated_width, rotated_height>>,
            TRUE, card_suit, <<<<0, 0, 0>>>>)>>

\* The two loops without the test that skips the centre.
outline_offsets_with_centre ==
    <<<<-2, -2>>, <<-2, 0>>, <<-2, 2>>, <<0, -2>>, <<0, 0>>, <<0, 2>>,
      <<2, -2>>, <<2, 0>>, <<2, 2>>>>

\* for dx in [-2, 0, 2]: for dy in [-2, 0, 2]: if dx != 0 or dy != 0
outline_offsets ==
    SelectSeq(<<<<-2, -2>>, <<-2, 0>>, <<-2, 2>>, <<0, -2>>, <<0, 0>>, <<0, 2>>,
                <<2, -2>>, <<2, 0>>, <<2, 2>>>>,
              LAMBDA d : d[1] # 0 \/ d[2] # 0)

\* The numeric badge: eight outline draws, then the fill draw.
number_ops(force) ==
    LET number_str == str(force)
        font_number == truetype(55)
        num_bbox == textbbox(number_str, font_number)
        num_width == num_bbox[3] - num_bbox[1]
        num_height == num_bbox[4] - num_bbox[2]
        glyph_visual_center_x == 3 + 150 \div 2
        glyph_visual_center_y == 5 + 150 \div 2 + 5
        num_x == glyph_visual_center_x - num_width \div 2
        num_y == glyph_visual_center_y - num_height \div 2 - num_bbox[2]
    IN  [i \in 1..Len(outline_offsets) |->
            Text("number_outline",
                 <<num_x + outline_offsets[i][1], num_y + outline_offsets[i][2]>>,
                 number_str, color_hex_to_tuple(<<"#", "0", "0", "0", "0", "0", "0">>))]
        \o <<Text("number", <<num_x, num_y>>, number_str, color_hex_to_tuple(<<"#", "f", "f", "f", "f", "f", "f">>))>>

\* The description: sized by its length, wrapped and justified in a block 650
\* wide, centred horizontally, from y = 800.
description_ops(output_size, description) ==
    LET font_medium == truetype(descr_font_size(Len(description)))
        max_width == 650
        text_x == (output_size[1] - max_width) \div 2
        drawn == draw_justified_text(description, text_x, 800, max_width, font_medium).draws
    IN  [i \in 1..Len(drawn) |->
            Text("description", drawn[i].xy, drawn[i].text, <<0, 0, 0>>)]

\* A plausible slip: the title drawn after the badge, not after the scroll.
create_card_layers_title_late(gen, args) ==
    LET layer(needs, ops) == [needs |-> needs, ops |-> ops]
        character_xy == <<(gen.output_size[1] - 750) \div 2, 0>>
    IN  << layer(<<>>, rounded_card_base),
           layer(<<args.character_image>>, <<Paste("character", character_xy, <<750, 750>>, FALSE)>>),
           layer(<<args.texture_image>>, <<Paste("bottom_texture", <<0, 750>>,
                         <<gen.output_size[1], gen.output_size[2] - 750>>, TRUE)>>),
           layer(<<>>, <<Paste("character", character_xy, <<750, 750>>, FALSE)>>),
           layer(<<SCROLL_IMAGE>>,
                 <<Paste("scroll", <<(gen.output_size[1] - 1000) \div 2 - 90, -20>>,
                         <<1000, scroll_height>>, TRUE)>>),
           layer(<<FLAG_IMAGE>>, flag_ops(gen.bg_color_primary)),
           layer(<<TITLE_FONT>>, suit_label_ops(args.card_suit)),
           layer(<<GLYPH_IMAGE>>, <<Paste("glyph", <<3, 5>>, <<150, 150>>, TRUE)>>),
           layer(<<NUMBER_FONT>>, number_ops(args.force)),
           layer(<<TITLE_FONT>>, title_ops(gen.output_size, args.name)),
           layer(<<TEXT_FONT>>, description_ops(gen.output_size, args.description)),
           layer(<<>>, <<Op("putalpha", "rounded_mask", <<0, 0>>, <<0, 0>>, FALSE, <<>>, <<>>)>>) >>

\* The layers of create_card in the order of its statements: the files each
\* opens (in order) and the operations it applies to the canvas.
create_card_layers(gen, args) ==
    LET layer(needs, ops) == [needs |-> needs, ops |-> ops]
        character_xy == <<(gen.output_size[1] - 750) \div 2, 0>>
    IN  << layer(<<>>, rounded_card_base),
           layer(<<args.character_image>>, <<Paste("character", character_xy, <<750, 750>>, FALSE)>>),
           layer(<<args.texture_image>>, <<Paste("bottom_texture", <<0, 750>>,
                         <<gen.output_size[1], gen.output_size[2] - 750>>, TRUE)>>),
           layer(<<>>, <<Paste("character", character_xy, <<750, 750>>, FALSE)>>),
           layer(<<SCROLL_IMAGE>>,
                 <<Paste("scroll", <<(gen.output_size[1] - 1000) \div 2 - 90, -20>>,
                         <<1000, scroll_height>>, TRUE)>>),
           layer(<<TITLE_FONT>>, title_ops(gen.output_size, args.name)),
           layer(<<FLAG_IMAGE>>, flag_ops(gen.bg_color_primary)),
           layer(<<TITLE_FONT>>, suit_label_ops(args.card_suit)),
           layer(<<GLYPH_IMAGE>>, <<Paste("glyph", <<3, 5>>, <<150, 150>>, TRUE)>>),
           layer(<<NUMBER_FONT>>, number_ops(args.force)),
           layer(<<TEXT_FONT>>, description_ops(gen.output_size, args.description)),
           layer(<<>>, <<Op("putalpha", "rounded_mask", <<0, 0>>, <<0, 0>>, FALSE, <<>>, <<>>)>>) >>

(***************************************************************************)
(* The canvas at one position.  `probe` gives the position, the pixel each *)
(* pasted image holds there (probe.src) and the texts whose glyphs cover   *)
(* it (probe.ink).                                                         *)
(***************************************************************************)
PasteLayers == {"character", "bottom_texture", "scroll", "flag", "suit_label", "glyph"}

\* draw.rounded_rectangle([(0, 0), (w - 1, h - 1)], radius): the positions
\* it fills, and with inset > 0 the ones its outline leaves to the fill.
InsideRounded(size, radius, inset, pos) ==
    LET lo == inset + radius
        hi_x == size[1] - 1 - inset - radius
        hi_y == size[2] - 1 - inset - radius
        cx == IF pos[1] < lo THEN lo ELSE IF pos[1] > hi_x THEN hi_x ELSE pos[1]
        cy == IF pos[2] < lo THEN lo ELSE IF pos[2] > hi_y THEN hi_y ELSE pos[2]
    IN  (pos[1] - cx) * (pos[1] - cx) + (pos[2] - cy) * (pos[2] - cy) <= radius * radius

\* create_rounded_card_base(corner_radius): transparent, then the rounded
\* rectangle, white with a light-gray outline 2 wide.
create_rounded_card_base(size, corner_radius, pos) ==
    IF ~InsideRounded(size, corner_radius, 0, pos) THEN <<0, 0, 0, 0>>
    ELSE IF ~InsideRounded(size, corner_radius - 2, 2, pos) THEN <<200, 200, 200, 255>>
    ELSE <<255, 255, 255, 255>>

\* create_rounded_mask(size, corner_radius): 0, then 255 in the rounded rectangle
create_rounded_mask(size, corner_radius, pos) ==
    IF InsideRounded(size, corner_radius, 0, pos) THEN 255 ELSE 0

\* Pillow's a * b / 255, rounded
muldiv255(a, b) ==
    LET tmp == a * b + 128 IN ((tmp \div 256) + tmp) \div 256

\* Image.paste(im, box, mask) at one pixel: the image where the mask is 255,
\* the canvas where it is 0, a mix of the two (alpha included) in between.
paste_masked(dst, src, mask) ==
    [i \in 1..4 |-> muldiv255(dst[i], 255 - mask) + muldiv255(src[i], mask)]

\* A plausible slip: the mask only clips, a transparent pixel stays so.
putalpha_clip(pixel, alpha) ==
    <<pixel[1], pixel[2], pixel[3], IF pixel[4] < alpha THEN pixel[4] ELSE alpha>>

\* Image.putalpha(alpha) at one pixel
putalpha(pixel, alpha) == <<pixel[1], pixel[2], pixel[3], alpha>>

\* The pasted image of `op` covers the position.
Covers(op, pos) ==
    /\ pos[1] - op.xy[1] \in 0..(op.size[1] - 1)
    /\ pos[2] - op.xy[2] \in 0..(op.size[2] - 1)

\* The pixel at the position of `pr` after the operation `op`.
PixelAfter(pixel, op, gen, pr) ==
    CASE op.op = "rounded_rectangle" ->
             create_rounded_card_base(gen.output_size, 30, pr.pos)
      [] op.op = "paste" ->
             IF ~Covers(op, pr.pos) THEN pixel
             ELSE IF op.masked
                  THEN paste_masked(pixel, pr.src[op.what], pr.src[op.what][4])
                  ELSE pr.src[op.what]
      [] op.op = "text" ->
             IF op.what \in pr.ink THEN op.colors[1] \o <<255>> ELSE pixel
      [] OTHER ->
             putalpha(pixel, create_rounded_mask(gen.output_size, 30, pr.pos))

RECURSIVE PixelAfterOps(_, _, _, _, _)
PixelAfterOps(pixel, ops, n, gen, pr) ==
    IF n = 0 THEN pixel
    ELSE PixelAfter(PixelAfterOps(pixel, ops, n - 1, gen, pr), ops[n], gen, pr)

Files(paths) == {paths[i] : i \in 1..Len(paths)}

\* Image.open of a missing file raises FileNotFoundError, ImageFont.truetype
\* of a missing font OSError.
OpenError(path) ==
    IF path \in {TITLE_FONT, TEXT_FONT, NUMBER_FONT} THEN "OSError"
    ELSE "FileNotFoundError"

FirstUnreadable(paths, files) ==
    paths[CHOOSE i \in 1..Len(paths) :
            /\ paths[i] \notin files
            /\ \A j \in 1..(i - 1) : paths[j] \in files]

RECURSIVE LayerOps(_, _)
LayerOps(layers, n) ==
    IF n = 0 THEN <<>> ELSE LayerOps(layers, n - 1) \o layers[n].ops

\* create_card(...) run to its end with the files `files` readable: the
\* finished image, or the exception of the first layer whose file is missing.
create_card(gen, args, files) ==
    LET layers == create_card_layers(gen, args)
        failing == {n \in 1..Len(layers) : ~(Files(layers[n].needs) \subseteq files)}
    IN  IF failing = {}
        THEN [raised |-> "none", mode |-> "RGBA", size |-> gen.output_size,
              ops |-> LayerOps(layers, Len(layers))]
        ELSE LET n == CHOOSE m \in failing : \A k \in failing : m <= k
             IN  [raised |-> OpenError(FirstUnreadable(layers[n].needs, files))]

\* A plausible slip: the bottom texture (layer 3) swaps the two background
\* colours on self instead of in local names.
self_after_layer_swapped(gen, n) ==
    IF n = 3
    THEN [gen EXCEPT !.bg_color_primary = gen.bg_color_secondary,
                     !.bg_color_secondary = gen.bg_color_primary]
    ELSE gen

\* The generator after the statements of layer n: create_card and the
\* methods it calls read self.output_size, self.bg_color_primary and
\* self.bg_color_secondary and assign to no attribute of self.
self_after_layer(gen, n) == gen

\* Layer n of a running create_card; `to` is the layer after it.
Layer(n, to) ==
    LET this == create_card_layers(generator, cc_args)[n]
    IN  /\ IF Files(this.needs) \subseteq readable
           THEN /\ card' = card \o this.ops
                /\ px' = PixelAfterOps(px, this.ops, Len(this.ops), generator, probe)
                /\ cc_pc' = to
                /\ UNCHANGED cc_raised
           ELSE /\ cc_pc' = "raised"
                /\ cc_raised' = OpenError(FirstUnreadable(this.needs, readable))
                /\ UNCHANGED <<card, px>>
        /\ generator' = self_after_layer(generator, n)
        /\ UNCHANGED <<readable, cc_args, probe, finished, fs_vars, jt_vars, dr_vars,
                       im_vars, sc_vars, nt_vars>>

CreateBase ==
    /\ cc_pc = "base"
    /\ Layer(1, "character")

PasteCharacter ==
    /\ cc_pc = "character"
    /\ Layer(2, "texture")

PasteBottomTexture ==
    /\ cc_pc = "texture"
    /\ Layer(3, "character_again")

PasteCharacterAgain ==
    /\ cc_pc = "character_again"
    /\ Layer(4, "scroll")

PasteScroll ==
    /\ cc_pc = "scroll"
    /\ Layer(5, "title")

DrawTitle ==
    /\ cc_pc = "title"
    /\ Layer(6, "flag")

PasteFlag ==
    /\ cc_pc = "flag"
    /\ Layer(7, "suit_label")

PasteSuitLabel ==
    /\ cc_pc = "suit_label"
    /\ Layer(8, "glyph")

PasteGlyph ==
    /\ cc_pc = "glyph"
    /\ Layer(9, "number")

DrawNumber ==
    /\ cc_pc = "number"
    /\ Layer(10, "description")

DrawDescription ==
    /\ cc_pc = "description"
    /\ Layer(11, "mask")

\* create_rounded_mask, card.putalpha(final_mask), return card
ApplyMask ==
    /\ cc_pc = "mask"
    /\ Layer(12, "returned")

\* Every file create_card opens for the arguments of card_generator's main.
CardFiles ==
    {"outputs/yogi.png", "inputs/logos/paw.png", SCROLL_IMAGE, FLAG_IMAGE, GLYPH_IMAGE,
     TITLE_FONT, TEXT_FONT, NUMBER_FONT}

\* card_generator.py run as a script: a generator built from two hex
\* colours, then create_card on its arguments.  At most one file is missing.
CardInit ==
    /\ FontIdle /\ JustifyIdle /\ DriverIdle /\ ImageIdle /\ SaveIdle /\ NotionIdle
    /\ \E missing \in {{}} \cup {{f} : f \in CardFiles} : readable = CardFiles \ missing
    /\ \E suit \in {<<"C", "h", "a", "t">>, <<"F", "e", "s", "t", "i", "v", "a", "l">>} :
          generator = CardGenerator([bg_color_primary |-> SUIT_COLOR_MAP[suit][1],
                                     bg_color_secondary |-> SUIT_COLOR_MAP[suit][2]])
    /\ cc_args \in [character_image : {"outputs/yogi.png"},
                    texture_image : {"inputs/logos/paw.png"},
                    name : {<<"a", "b", "b", "a">>, <<"a", "b", " ", "a", "b", "b", "a", " ", "a", "b", "b", "a", " ", "a", "b">>},
                    description : TextsUpTo(MaxDescrLen),
                    card_suit : {<<"F", "e", "s", "t", "i", "v", "a", "l">>},
                    force : {7, 99}]
    /\ cc_pc = "base"
    /\ card = <<>>
    /\ cc_raised = "none"
    /\ probe = [pos |-> <<375, 400>>, src |-> [l \in PasteLayers |-> <<10, 20, 30, 255>>],
                ink |-> {}]
    /\ px = <<0, 0, 0, 0>>
    /\ finished = <<>>

CardNext ==
    \/ CreateBase \/ PasteCharacter \/ PasteBottomTexture \/ PasteCharacterAgain
    \/ PasteScroll \/ DrawTitle \/ PasteFlag \/ PasteSuitLabel \/ PasteGlyph
    \/ DrawNumber \/ DrawDescription \/ ApplyMask

SpecCard == CardInit /\ [][CardNext]_vars

(***************************************************************************)
(* One CardGenerator asked for several cards, one call after the other.    *)
(***************************************************************************)
\* The number of create_card calls made on the generator.
MaxBuilds == 3

\* The generator of card_generator's main.
MainGenerator ==
    CardGenerator([bg_color_primary |-> <<"#", "D", "3", "2", "F", "2", "F">>,
                   bg_color_secondary |-> <<"#", "F", "F", "C", "D", "D", "2">>])

\* Arguments of create_card that differ in the suit and the force.
BuildArgs ==
    [character_image : {"outputs/yogi.png"},
     texture_image : {"inputs/logos/paw.png"},
     name : {<<"a", "b", " ", "a", "b", "b", "a">>},
     description : {<<"a", " ", "b">>},
     card_suit : {<<"F", "e", "s", "t", "i", "v", "a", "l">>, <<"C", "h", "a", "t">>},
     force : {7, 99}]

BuildsInit ==
    /\ FontIdle /\ JustifyIdle /\ DriverIdle /\ ImageIdle /\ SaveIdle /\ NotionIdle
    /\ readable = CardFiles
    /\ generator = MainGenerator
    /\ cc_args \in BuildArgs
    /\ cc_pc = "base"
    /\ card = <<>>
    /\ cc_raised = "none"
    /\ probe = [pos |-> <<60, 100>>, src |-> [l \in PasteLayers |-> <<10, 20, 30, 255>>],
                ink |-> {}]
    /\ px = <<0, 0, 0, 0>>
    /\ finished = <<>>

\* create_card has returned; the caller keeps the card and calls create_card
\* on the same generator with arguments of its choice.
CreateCardAgain ==
    /\ cc_pc = "returned"
    /\ Len(finished) + 1 < MaxBuilds
    /\ finished' = Append(finished, [args |-> cc_args, card |-> card, px |-> px])
    /\ cc_args' \in BuildArgs
    /\ cc_pc' = "base"
    /\ card' = <<>>
    /\ px' = <<0, 0, 0, 0>>
    /\ UNCHANGED <<readable, generator, cc_raised, probe, fs_vars, jt_vars, dr_vars,
                   im_vars, sc_vars, nt_vars>>

BuildsNext == CardNext \/ CreateCardAgain

SpecBuilds == BuildsInit /\ [][BuildsNext]_vars

(***************************************************************************)
(* create_card followed at one position of the canvas, for every choice of *)
(* the pixels the pasted images hold there.                                *)
(***************************************************************************)
\* The corners (outside the rounded rectangle), the outline on the left
\* edge, the artwork, the badge and flag area, the bottom texture.
SamplePositions ==
    {<<0, 0>>, <<749, 1049>>, <<0, 525>>, <<375, 400>>, <<60, 100>>, <<375, 900>>}

\* A pixel of a pasted image: transparent, half transparent, opaque.
SourcePixels == {<<10, 20, 30, 0>>, <<10, 20, 30, 128>>, <<10, 20, 30, 255>>}

\* The layers whose pasted image covers the position.
Covering(gen, args, pos) ==
    LET layers == create_card_layers(gen, args)
        ops == LayerOps(layers, Len(layers))
    IN  {ops[i].what : i \in {j \in 1..Len(ops) : ops[j].op = "paste" /\ Covers(ops[j], pos)}}

SampleProbes(gen, args) ==
    UNION { { [pos |-> pos, src |-> src, ink |-> ink] :
                src \in { f \in [PasteLayers -> SourcePixels] :
                            \A l \in PasteLayers \ Covering(gen, args, pos) :
                                f[l] = <<10, 20, 30, 0>> },
                ink \in {{}, {"title"}, {"number_outline", "number"}, {"description"}} }
            : pos \in SamplePositions }

PixelInit ==
    /\ FontIdle /\ JustifyIdle /\ DriverIdle /\ ImageIdle /\ SaveIdle /\ NotionIdle
    /\ readable = CardFiles
    /\ generator = CardGenerator([bg_color_primary |-> SUIT_COLOR_MAP[<<"C", "h", "a", "t">>][1],
                                  bg_color_secondary |-> SUIT_COLOR_MAP[<<"C", "h", "a", "t">>][2]])
    /\ cc_args = [character_image |-> "outputs/yogi.png",
                  texture_image |-> "inputs/logos/paw.png",
                  name |-> <<"a", "b", "b", "a">>,
                  description |-> <<"a", " ", "b">>,
                  card_suit |-> <<"C", "h", "a", "t">>,
                  force |-> 7]
    /\ cc_pc = "base"
    /\ card = <<>>
    /\ cc_raised = "none"
    /\ probe \in SampleProbes(generator, cc_args)
    /\ px = <<0, 0, 0, 0>>
    /\ finished = <<>>

SpecPixel == PixelInit /\ [][CardNext]_vars

(***************************************************************************)
(* Claims about create_card (checked under SpecCard).                      *)
(***************************************************************************)

\* The operations of the canvas that draw the description.
DescriptionOps == SelectSeq(card, LAMBDA o : o.what = "description")

\* The description has no word: it is empty or made of whitespace only.
BlankDescription == \A i \in 1..Len(cc_args.description) : IsSpace(cc_args.description[i])

\* C10: for an empty or all-whitespace description _draw_justified_text
\* builds zero lines and issues no draw call, and does not raise: the build
\* goes on from the description to the final mask and returns.
C10_EmptyDescription ==
    BlankDescription =>
        /\ draw_justified_text(cc_args.description, 50, 800, 650,
                               truetype(descr_font_size(Len(cc_args.description)))).lines = <<>>
        /\ DescriptionOps = <<>>
        /\ cc_pc = "raised" => \E f \in CardFiles : f \notin readable
        /\ cc_pc = "returned" =>
              /\ card[Len(card)].op = "putalpha"
              /\ card[Len(card) - 1].what = "number"

\* A build of a whitespace-only description that has returned, masked.
C10_Witness ==
    /\ cc_args.description = <<" ">>
    /\ cc_pc = "returned"
    /\ cc_raised = "none"
    /\ card[Len(card)].op = "putalpha"
    /\ DescriptionOps = <<>>

(***************************************************************************)
(* utils.py: slugify_name, and the str methods the drivers use             *)
(***************************************************************************)
\* F(e), with e evaluated once: the model checker evaluates an operator's
\* argument at each of its uses, an element of a set only once.
WithValue(e, F(_)) == CHOOSE r \in {F(v) : v \in {e}} : TRUE

RECURSIVE lstrip(_)
lstrip(text) ==
    IF text # <<>> /\ IsSpace(Head(text)) THEN lstrip(Tail(text)) ELSE text

RECURSIVE rstrip(_)
rstrip(text) ==
    IF text # <<>> /\ IsSpace(text[Len(text)])
    THEN rstrip(SubSeq(text, 1, Len(text) - 1)) ELSE text

\* str.strip()
strip(text) ==
    WithValue(text, LAMBDA t : WithValue(lstrip(t), LAMBDA u : rstrip(u)))

\* str.lower() on the letters of the model's names
lower_char(c) == CASE c = "A" -> "a" [] c = "B" -> "b" [] OTHER -> c

lower(text) == [i \in 1..Len(text) |-> lower_char(text[i])]

RECURSIVE ReplaceChars(_, _, _)
ReplaceChars(text, old, new) ==
    IF text = <<>> THEN <<>>
    ELSE (IF Head(text) = old THEN new ELSE <<Head(text)>>)
         \o ReplaceChars(Tail(text), old, new)

\* str.replace(old, new) for a one-character old
replace_char(text, old, new) ==
    WithValue(text, LAMBDA t : ReplaceChars(t, old, new))

\* str.replace("  ", " "): left to right, without rescanning what it wrote
RECURSIVE ReplaceDoubleSpaces(_)
ReplaceDoubleSpaces(text) ==
    IF Len(text) < 2 THEN text
    ELSE IF text[1] = " " /\ text[2] = " "
         THEN <<" ">> \o ReplaceDoubleSpaces(SubSeq(text, 3, Len(text)))
         ELSE <<Head(text)>> \o ReplaceDoubleSpaces(Tail(text))

replace_double_space(text) == WithValue(text, LAMBDA t : ReplaceDoubleSpaces(t))

slugify_name(name) ==
    replace_char(
        replace_char(
            replace_char(
                replace_char(lower(strip(name)), " ", <<"_">>),
                "/", <<"_">>),
            "'", <<>>),
        "-", <<"_">>)

(***************************************************************************)
(* generate_all_cards.py: get_image_path, generate_card_from_notion_row    *)
(*                                                                         *)
(* A directory of outputs/full_run is [exists, files]; a file name is the  *)
(* pair of its stem and its extension, in os.listdir's order.              *)
(***************************************************************************)
\* os.path.splitext(f)[1].lower()
lower_ext(ext) ==
    CASE ext = ".PNG" -> ".png" [] ext = ".JPG" -> ".jpg" [] ext = ".JPEG" -> ".jpeg"
      [] OTHER -> ext

\* get_image_path(card_title): the file chosen, or the exception raised.
get_image_path(card_title, fs) ==
    LET slug_name == slugify_name(card_title)
        dir == fs[slug_name]
        files == SelectSeq(dir.files,
                           LAMBDA f : lower_ext(f[2]) \in {".png", ".jpg", ".jpeg"})
    IN  IF ~dir.exists THEN [raised |-> "FileNotFoundError"]
        ELSE IF files = <<>> THEN [raised |-> "FileNotFoundError"]
        ELSE IF \E i \in 1..Len(files) : files[i] = <<"final", ".png">>
             THEN [raised |-> "none", dir |-> slug_name, file |-> <<"final", ".png">>]
             ELSE [raised |-> "none", dir |-> slug_name, file |-> files[1]]

\* A plausible slip: an unknown suit falls back to the first suit's colours
\* (SUIT_COLOR_MAP.get with a default) instead of raising.
suit_colors_or_default(suit_name) ==
    IF suit_name \in DOMAIN SUIT_COLOR_MAP
    THEN [raised |-> "none", colors |-> SUIT_COLOR_MAP[suit_name]]
    ELSE [raised |-> "none", colors |-> SUIT_COLOR_MAP[<<"C", "h", "a", "t">>]]

\* primary_color, secondary_color = SUIT_COLOR_MAP[suit_name]
suit_colors(suit_name) ==
    IF suit_name \in DOMAIN SUIT_COLOR_MAP
    THEN [raised |-> "none", colors |-> SUIT_COLOR_MAP[suit_name]]
    ELSE [raised |-> "KeyError"]

\* The path create_card opens for the character image get_image_path chose.
CHARACTER_IMAGE == "outputs/full_run/<slug>/<image>"

\* The logo file of a suit.
LOGO_IMAGE == "inputs/logos/<logo>"

\* generate_card_from_notion_row(notion_row, extra_bold_words): the slug and
\* the card it returns, or the exception it propagates.  `files` are the
\* asset files that open.
generate_card_from_notion_row(notion_row, extra_bold_words, fs, files) ==
    LET card_title == strip(notion_row.name)
        description == strip(replace_double_space(notion_row.description))
        points == notion_row.points
        suit_name == notion_row.suit
        looked_up == suit_colors(suit_name)
        img_path == get_image_path(card_title, fs)
        slug == slugify_name(card_title)
        made == CardGenerator([bg_color_primary |-> looked_up.colors[1],
                               bg_color_secondary |-> looked_up.colors[2],
                               extra_bold_words |-> extra_bold_words])
        created == create_card(made,
                               [character_image |-> CHARACTER_IMAGE,
                                texture_image |-> LOGO_IMAGE,
                                name |-> card_title,
                                description |-> description,
                                card_suit |-> suit_name,
                                force |-> points],
                               files \cup {CHARACTER_IMAGE})
    IN  IF looked_up.raised # "none" THEN [raised |-> looked_up.raised]
        ELSE IF img_path.raised # "none" THEN [raised |-> img_path.raised]
        ELSE IF made.raised # "none" THEN [raised |-> made.raised]
        ELSE IF created.raised # "none" THEN [raised |-> created.raised]
        ELSE [raised |-> "none", slug |-> slug,
              card |-> [mode |-> created.mode, size |-> created.size, ops |-> created.ops]]

(***************************************************************************)
(* The batch drivers: generate_all_cards.py run as a script, generate_pdf  *)
(* and generate_home_pdf.                                                  *)
(*                                                                         *)
(* A PDF page is the sequence of the items drawn on it.  Canvas.showPage   *)
(* closes the page being composed; Canvas.save closes it too when          *)
(* something was drawn on it.                                              *)
(***************************************************************************)
COVER_IMAGE == "inputs/cover_square_border.png"

NoImage == [kind |-> "None", slug |-> <<>>]

\* A card file on disk: "outputs/cards/", "outputs/temp_card_" or
\* "outputs/temp_home_card_", then the slug and ".png".
CardPath(kind, slug) == [kind |-> kind, slug |-> slug]

Item(kind, record, slot) == [kind |-> kind, record |-> record, slot |-> slot]

Message(text, record) == [text |-> text, record |-> record]

\* extra_bold_words = {row["name"] for row in notion_rows}
extra_bold_words == {notion_rows[i].name : i \in 1..Len(notion_rows)}

\* The build of the record the loop is at.
Build == generate_card_from_notion_row(notion_rows[idx + 1], extra_bold_words,
                                      full_run, readable)

ShowPage(items) == pages \o <<items>>

DriverFrame ==
    UNCHANGED <<fs_vars, jt_vars, cc_vars, im_vars, sc_vars, nt_vars, driver, notion_rows, full_run>>

\* generate_all_cards.py, one turn of the loop of the script: nothing
\* catches what generate_card_from_notion_row raises.
MainLoop ==
    /\ driver = "generate_all_cards" /\ dr_pc = "loop" /\ idx < Len(notion_rows)
    /\ \E built \in {Build} :
           /\ builds' = Append(builds, built)
           /\ idx' = idx + 1
           /\ IF built.raised # "none"
              THEN /\ uncaught' = built.raised
                   /\ dr_pc' = "aborted"
                   /\ UNCHANGED <<disk, printed>>
              ELSE /\ disk' = disk \cup {CardPath("outputs/cards/", built.slug)}
                   /\ printed' = Append(printed, Message("Saved card to", idx + 1))
                   /\ UNCHANGED <<uncaught, dr_pc>>
    /\ UNCHANGED <<card_images, pages, page, page_idx, page_num>>
    /\ DriverFrame

\* The loop of the script is over: the script ends.
MainExit ==
    /\ driver = "generate_all_cards" /\ dr_pc = "loop" /\ idx = Len(notion_rows)
    /\ dr_pc' = "done"
    /\ UNCHANGED <<idx, builds, printed, disk, card_images, pages, page, page_idx, page_num,
                   uncaught>>
    /\ DriverFrame

\* generate_pdf, one turn of its loop (lines 111-159) for a build that ended
\* as `built`, with c.drawImage of the temporary file going through
\* (draw_ok) or raising: the card (or the error message) on its page, and a
\* new page unless this was the last record.  os.remove is the last
\* statement of the try block: it is skipped when drawImage raises.
PdfTurn(built, draw_ok) ==
    LET temp_card_path == CardPath("outputs/temp_card_", built.slug)
        drawn ==
            IF built.raised # "none" THEN <<Item("error", idx + 1, 0)>>
            ELSE IF draw_ok
            THEN <<Item("cutting_lines", idx + 1, 0), Item("card", idx + 1, 0)>>
            ELSE <<Item("cutting_lines", idx + 1, 0), Item("error", idx + 1, 0)>>
    IN  /\ builds' = Append(builds, built)
        /\ printed' = printed
               \o <<Message("Processing card", idx + 1)>>
               \o (IF built.raised = "none" /\ draw_ok THEN <<>>
                   ELSE <<Message("Error processing card", idx + 1)>>)
        /\ disk' = IF built.raised # "none" THEN disk
                   ELSE IF draw_ok THEN disk \ {temp_card_path}
                   ELSE disk \cup {temp_card_path}
        /\ IF idx < Len(notion_rows) - 1
           THEN pages' = ShowPage(page \o drawn) /\ page' = <<>>
           ELSE page' = page \o drawn /\ UNCHANGED pages
        /\ idx' = idx + 1
        /\ UNCHANGED <<dr_pc, card_images, page_idx, page_num, uncaught>>
        /\ DriverFrame

PdfLoop ==
    /\ driver = "generate_pdf" /\ dr_pc = "loop" /\ idx < Len(notion_rows)
    /\ \E built \in {Build}, draw_ok \in BOOLEAN : PdfTurn(built, draw_ok)

\* generate_pdf that starts a new page for the cover even after no record.
PdfCover_always_new_page ==
    /\ driver = "generate_pdf" /\ dr_pc = "loop" /\ idx = Len(notion_rows)
    /\ LET cover ==
               IF COVER_IMAGE \in readable
               THEN <<Item("cutting_lines", 0, 0), Item("cover", 0, 0)>>
               ELSE <<Item("cutting_lines", 0, 0), Item("error", 0, 0)>>
       IN  pages' = ShowPage(page) \o <<cover>>
    /\ page' = <<>>
    /\ dr_pc' = "done"
    /\ UNCHANGED <<idx, builds, printed, disk, card_images, page_idx, page_num, uncaught>>
    /\ DriverFrame

\* generate_pdf after its loop: the cover on the last page, Canvas.save.
PdfCover ==
    /\ driver = "generate_pdf" /\ dr_pc = "loop" /\ idx = Len(notion_rows)
    /\ LET shown == IF Len(notion_rows) > 0 THEN ShowPage(page) ELSE pages
           cover ==
               IF COVER_IMAGE \in readable
               THEN <<Item("cutting_lines", 0, 0), Item("cover", 0, 0)>>
               ELSE <<Item("cutting_lines", 0, 0), Item("error", 0, 0)>>
       IN  pages' = shown \o <<cover>>
    /\ page' = <<>>
    /\ dr_pc' = "done"
    /\ UNCHANGED <<idx, builds, printed, disk, card_images, page_idx, page_num, uncaught>>
    /\ DriverFrame

\* generate_home_pdf, one turn of the loop that generates the card images
\* (lines 95-107), for a build that ended as `built`.
HomeTurn(built) ==
    /\ builds' = Append(builds, built)
    /\ IF built.raised = "none"
       THEN LET temp_card_path == CardPath("outputs/temp_home_card_", built.slug)
            IN  /\ disk' = disk \cup {temp_card_path}
                /\ card_images' = Append(card_images, temp_card_path)
                /\ printed' = Append(printed, Message("Processing card", idx + 1))
       ELSE /\ card_images' = Append(card_images, NoImage)
            /\ printed' = printed \o <<Message("Processing card", idx + 1),
                                       Message("Error processing card", idx + 1)>>
            /\ UNCHANGED disk
    /\ idx' = idx + 1
    /\ UNCHANGED <<dr_pc, pages, page, page_idx, page_num, uncaught>>
    /\ DriverFrame

HomeLoop ==
    /\ driver = "generate_home_pdf" /\ dr_pc = "loop" /\ idx < Len(notion_rows)
    /\ \E built \in {Build} : HomeTurn(built)

\* math.ceil(total_cards / cards_per_page) with 3 x 3 cards per page
pages_for_cards == (Len(notion_rows) + 8) \div 9

\* generate_home_pdf after its last sheet, or with no sheet at all:
\* Canvas.save, the temporary files removed, the total printed.
HomeSaveAndCleanUp ==
    /\ pages' = IF page # <<>> THEN ShowPage(page) ELSE pages
    /\ page' = <<>>
    /\ disk' = disk \ {card_images[i] : i \in 1..Len(card_images)}
    /\ printed' = Append(printed, Message("Total pages", page_num))
    /\ dr_pc' = "done"

\* The position in a 3 x 3 page that faces pos_idx when the sheet is turned
\* over (lines 153-156).
mirrored_pos_idx(pos_idx) == (pos_idx \div 3) * 3 + (3 - 1 - (pos_idx % 3))

\* The choices of the cards whose c.drawImage raises: none, the first card
\* of the sheet, its last card.
DrawFailures(first, last) == {{}, {first}, {last}}

\* A plausible slip: the cards that were built fill the page from its first
\* position on, the position of a failed card going to the next card.
HomeSheetDrawn_compacted(bad) ==
    LET start_idx == page_idx * 9
        end_idx == IF start_idx + 9 < Len(notion_rows) THEN start_idx + 9
                   ELSE Len(notion_rows)
        used == end_idx - start_idx
        front_slots == SelectSeq([p \in 1..used |-> p - 1],
                                 LAMBDA pos_idx : card_images[start_idx + pos_idx + 1] # NoImage)
        fronts == [k \in 1..Len(front_slots) |->
                      IF /\ card_images[start_idx + front_slots[k] + 1] \in disk
                         /\ start_idx + front_slots[k] + 1 \notin bad
                      THEN Item("card", start_idx + front_slots[k] + 1, k - 1)
                      ELSE Item("error", start_idx + front_slots[k] + 1, k - 1)]
        covers == [p \in 1..(IF 9 < used THEN 9 ELSE used) |->
                      IF COVER_IMAGE \in readable
                      THEN Item("cover", 0, mirrored_pos_idx(p - 1))
                      ELSE Item("error", 0, mirrored_pos_idx(p - 1))]
    IN  /\ IF page_idx < pages_for_cards - 1
           THEN /\ pages' = pages \o <<page \o fronts, covers>>
                /\ page' = <<>>
                /\ page_num' = page_num + 2
           ELSE /\ pages' = pages \o <<page \o fronts>>
                /\ page' = covers
                /\ page_num' = page_num + 1
        /\ page_idx' = page_idx + 1
        /\ UNCHANGED <<dr_pc, idx, builds, printed, disk, card_images, uncaught>>
        /\ DriverFrame

\* generate_home_pdf, one sheet (lines 117-174): the page of up to 9 card
\* fronts, then the page of their covers at the mirrored positions.  `bad`
\* are the cards whose c.drawImage raises.
HomeSheetDrawn(bad) ==
    LET start_idx == page_idx * 9
        end_idx == IF start_idx + 9 < Len(notion_rows) THEN start_idx + 9
                   ELSE Len(notion_rows)
        used == end_idx - start_idx
        front_slots == SelectSeq([p \in 1..used |-> p - 1],
                                 LAMBDA pos_idx : card_images[start_idx + pos_idx + 1] # NoImage)
        fronts == [k \in 1..Len(front_slots) |->
                      IF /\ card_images[start_idx + front_slots[k] + 1] \in disk
                         /\ start_idx + front_slots[k] + 1 \notin bad
                      THEN Item("card", start_idx + front_slots[k] + 1, front_slots[k])
                      ELSE Item("error", start_idx + front_slots[k] + 1, front_slots[k])]
        covers == [p \in 1..(IF 9 < used THEN 9 ELSE used) |->
                      IF COVER_IMAGE \in readable
                      THEN Item("cover", 0, mirrored_pos_idx(p - 1))
                      ELSE Item("error", 0, mirrored_pos_idx(p - 1))]
    IN  /\ IF page_idx < pages_for_cards - 1
           THEN /\ pages' = pages \o <<page \o fronts, covers>>
                /\ page' = <<>>
                /\ page_num' = page_num + 2
           ELSE /\ pages' = pages \o <<page \o fronts>>
                /\ page' = covers
                /\ page_num' = page_num + 1
        /\ page_idx' = page_idx + 1
        /\ UNCHANGED <<dr_pc, idx, builds, printed, disk, card_images, uncaught>>
        /\ DriverFrame

HomeSheet ==
    /\ driver = "generate_home_pdf" /\ dr_pc = "loop" /\ idx = Len(notion_rows)
    /\ page_idx < pages_for_cards
    /\ \E bad \in DrawFailures(page_idx * 9 + 1,
                                IF page_idx * 9 + 9 < Len(notion_rows) THEN page_idx * 9 + 9
                                ELSE Len(notion_rows)) :
          HomeSheetDrawn(bad)

HomeSave ==
    /\ driver = "generate_home_pdf" /\ dr_pc = "loop" /\ idx = Len(notion_rows)
    /\ page_idx = pages_for_cards
    /\ HomeSaveAndCleanUp
    /\ UNCHANGED <<idx, builds, card_images, page_idx, page_num, uncaught>>
    /\ DriverFrame

Names == {<<" ", "a", "b">>, <<"A", " ", "b">>}

UnknownSuit == <<"Z", "o", "o">>

Rows == [name : Names, description : {<<"a", " ", " ", "b", " ">>}, points : {7},
         suit : {<<"C", "h", "a", "t">>, UnknownSuit}]

RECURSIVE RowLists(_)
RowLists(n) ==
    IF n = 0 THEN {<<>>}
    ELSE LET shorter == RowLists(n - 1)
         IN  shorter \cup { Append(rs, r) : rs \in {q \in shorter : Len(q) = n - 1}, r \in Rows }

\* A directory of outputs/full_run: missing, without an image, with
\* final.png after another image, with one image that is not final.png.
Directories ==
    { [exists |-> FALSE, files |-> <<>>],
      [exists |-> TRUE, files |-> << <<"notes", ".txt">> >>],
      [exists |-> TRUE, files |-> << <<"v1", ".PNG">>, <<"final", ".png">> >>],
      [exists |-> TRUE, files |-> << <<"v1", ".jpg">> >>] }

Init ==
    /\ FontIdle /\ JustifyIdle /\ ImageIdle /\ SaveIdle /\ NotionIdle
    /\ generator = [raised |-> "none"] /\ cc_args = [name |-> <<>>]
    /\ cc_pc = "idle" /\ card = <<>> /\ cc_raised = "none"
    /\ probe = <<>> /\ px = <<>> /\ finished = <<>>
    /\ readable \in {CardFiles \cup {LOGO_IMAGE, COVER_IMAGE}, CardFiles \cup {LOGO_IMAGE}}
    /\ driver \in {"generate_all_cards", "generate_pdf", "generate_home_pdf"}
    /\ notion_rows \in RowLists(MaxRows)
    /\ full_run \in [{slugify_name(n) : n \in Names} -> Directories]
    /\ dr_pc = "loop"
    /\ idx = 0
    /\ builds = <<>>
    /\ printed = <<>>
    /\ disk = {}
    /\ card_images = <<>>
    /\ pages = <<>>
    /\ page = <<>>
    /\ page_idx = 0
    /\ page_num = 1
    /\ uncaught = "none"

Next ==
    \/ MainLoop \/ MainExit
    \/ PdfLoop \/ PdfCover
    \/ HomeLoop \/ HomeSheet \/ HomeSave

Spec == Init /\ [][Next]_vars

(***************************************************************************)
(* generate_pdf and generate_home_pdf for every way the build of a record  *)
(* can end: generate_card_from_notion_row returns (slug, card) or raises,  *)
(* and the two drivers catch Exception whatever its kind.                  *)
(***************************************************************************)
MaxPdfCards == 3     \* generate_pdf gets at most MaxPdfCards records
MaxHomeCards == 10   \* generate_home_pdf gets at most MaxHomeCards records

\* n records of different names: the i-th is named by i letters.
BatchRows(n) ==
    [i \in 1..n |-> [name |-> [k \in 1..i |-> "a"],
                     description |-> <<"a", " ", " ", "b", " ">>,
                     points |-> 7,
                     suit |-> <<"C", "h", "a", "t">>]]

\* The ways generate_card_from_notion_row(notion_row, ...) can end: it
\* raises, or it returns the slug of the stripped name and an RGBA card.
AnyBuild(notion_row) ==
    { [raised |-> "TypeError"],
      [raised |-> "none", slug |-> slugify_name(strip(notion_row.name)),
       card |-> [mode |-> "RGBA", size |-> <<750, 1050>>, ops |-> <<>>]] }

BatchInit ==
    /\ FontIdle /\ JustifyIdle /\ ImageIdle /\ SaveIdle /\ NotionIdle
    /\ generator = [raised |-> "none"] /\ cc_args = [name |-> <<>>]
    /\ cc_pc = "idle" /\ card = <<>> /\ cc_raised = "none"
    /\ probe = <<>> /\ px = <<>> /\ finished = <<>>
    /\ readable \in {CardFiles \cup {LOGO_IMAGE, COVER_IMAGE}, CardFiles \cup {LOGO_IMAGE}}
    /\ \/ driver = "generate_pdf" /\ notion_rows \in {BatchRows(n) : n \in 0..MaxPdfCards}
       \/ driver = "generate_home_pdf" /\ notion_rows \in {BatchRows(n) : n \in 0..MaxHomeCards}
    /\ full_run = [s \in {slugify_name(n) : n \in Names} |-> [exists |-> FALSE, files |-> <<>>]]
    /\ dr_pc = "loop"
    /\ idx = 0
    /\ builds = <<>>
    /\ printed = <<>>
    /\ disk = {}
    /\ card_images = <<>>
    /\ pages = <<>>
    /\ page = <<>>
    /\ page_idx = 0
    /\ page_num = 1
    /\ uncaught = "none"

PdfLoopAnyBuild ==
    /\ driver = "generate_pdf" /\ dr_pc = "loop" /\ idx < Len(notion_rows)
    /\ \E built \in AnyBuild(notion_rows[idx + 1]), draw_ok \in BOOLEAN :
          PdfTurn(built, draw_ok)

HomeLoopAnyBuild ==
    /\ driver = "generate_home_pdf" /\ dr_pc = "loop" /\ idx < Len(notion_rows)
    /\ \E built \in AnyBuild(notion_rows[idx + 1]) : HomeTurn(built)

BatchNext ==
    \/ PdfLoopAnyBuild \/ PdfCover
    \/ HomeLoopAnyBuild \/ HomeSheet \/ HomeSave

SpecBatch == BatchInit /\ [][BatchNext]_vars

(***************************************************************************)
(* generate_all_cards.py, the loop of the script, for every way the build  *)
(* of a record can end, on records whose names differ by case, by spaces   *)
(* and by the characters slugify_name replaces.                            *)
(***************************************************************************)
MaxSavedCards == 2   \* the script gets at most MaxSavedCards records

SlugNames == {<<"A", " ", "b">>, <<"a", " ", "b">>, <<"a", "-", "b">>, <<"a", "/", "b">>,
              <<"a", "'", "b">>, <<"a", "b">>, <<" ", "a", "b">>, <<"b">>}

SlugRows == [name : SlugNames, description : {<<"a", " ", " ", "b", " ">>}, points : {7},
             suit : {<<"C", "h", "a", "t">>}]

CardsInit ==
    /\ FontIdle /\ JustifyIdle /\ ImageIdle /\ SaveIdle /\ NotionIdle
    /\ generator = [raised |-> "none"] /\ cc_args = [name |-> <<>>]
    /\ cc_pc = "idle" /\ card = <<>> /\ cc_raised = "none"
    /\ probe = <<>> /\ px = <<>> /\ finished = <<>>
    /\ readable = CardFiles \cup {LOGO_IMAGE, COVER_IMAGE}
    /\ driver = "generate_all_cards"
    /\ \E n \in 0..MaxSavedCards : notion_rows \in [1..n -> SlugRows]
    /\ full_run = [s \in {slugify_name(n) : n \in Names} |-> [exists |-> FALSE, files |-> <<>>]]
    /\ dr_pc = "loop"
    /\ idx = 0
    /\ builds = <<>>
    /\ printed = <<>>
    /\ disk = {}
    /\ card_images = <<>>
    /\ pages = <<>>
    /\ page = <<>>
    /\ page_idx = 0
    /\ page_num = 1
    /\ uncaught = "none"

\* One turn of the loop of the script (lines 101-107) for a build that
\* ended as `built`: card.save writes outputs/cards/<slug>.png, over the
\* file of that path if there is one.
MainTurn(built) ==
    /\ builds' = Append(builds, built)
    /\ idx' = idx + 1
    /\ IF built.raised # "none"
       THEN /\ uncaught' = built.raised
            /\ dr_pc' = "aborted"
            /\ UNCHANGED <<disk, printed>>
       ELSE /\ disk' = disk \cup {CardPath("outputs/cards/", built.slug)}
            /\ printed' = Append(printed, Message("Saved card to", idx + 1))
            /\ UNCHANGED <<uncaught, dr_pc>>
    /\ UNCHANGED <<card_images, pages, page, page_idx, page_num>>
    /\ DriverFrame

MainLoopAnyBuild ==
    /\ driver = "generate_all_cards" /\ dr_pc = "loop" /\ idx < Len(notion_rows)
    /\ \E built \in AnyBuild(notion_rows[idx + 1]) : MainTurn(built)

CardsNext == MainLoopAnyBuild \/ MainExit

SpecCards == CardsInit /\ [][CardsNext]_vars

(***************************************************************************)
(* Properties of the per-record build and of the batch drivers.            *)
(***************************************************************************)
\* The record a processed build was made from.
RowOf(i) == notion_rows[i]

KnownSuit(row) == row.suit \in DOMAIN SUIT_COLOR_MAP

\* The directory of the record's character holds at least one image file.
ImageResolves(row) ==
    LET dir == full_run[slugify_name(strip(row.name))]
    IN  /\ dir.exists
        /\ \E k \in 1..Len(dir.files) :
               lower_ext(dir.files[k][2]) \in {".png", ".jpg", ".jpeg"}

\* C1: for every record whose suit has an entry in the style tables and whose
\* character image resolves to a readable file, generate_card_from_notion_row
\* completes without raising and returns one RGBA card image of size 750x1050.
C1_BuildCompletes ==
    \A i \in 1..Len(builds) :
        (KnownSuit(RowOf(i)) /\ ImageResolves(RowOf(i)) /\ CardFiles \subseteq readable)
        => /\ builds[i].raised = "none"
           /\ builds[i].card.mode = "RGBA"
           /\ builds[i].card.size = <<750, 1050>>

\* C2: in every batch driver, when the build of a record fails the failure is
\* recorded and every later record is still processed; the run is not aborted.
C2_RunContinues ==
    /\ uncaught = "none"
    /\ dr_pc # "aborted"
    /\ dr_pc = "done" =>
           /\ Len(builds) = Len(notion_rows)
           /\ \A i \in 1..Len(builds) :
                  builds[i].raised # "none" =>
                      \E k \in 1..Len(printed) :
                          printed[k] = Message("Error processing card", i)

\* C3: the per-record build fails fast.  A record whose suit has no entry in
\* SUIT_COLOR_MAP makes the build raise KeyError; a record of a known suit
\* whose character directory is missing or holds no image makes it raise
\* FileNotFoundError.  In both cases the build returns no slug and no card,
\* and in the generate_all_cards script the error reaches the top level.
C3_FailFast ==
    \A i \in 1..Len(builds) :
        /\ ~KnownSuit(RowOf(i)) => builds[i] = [raised |-> "KeyError"]
        /\ (KnownSuit(RowOf(i)) /\ ~ImageResolves(RowOf(i)))
               => builds[i] = [raised |-> "FileNotFoundError"]
        /\ (driver = "generate_all_cards"
              /\ (~KnownSuit(RowOf(i)) \/ ~ImageResolves(RowOf(i))))
               => /\ uncaught = builds[i].raised
                  /\ disk = {}

\* A run processed a record of an unknown suit and a record of a known suit
\* without a character image; both builds raised.
C3_Witness ==
    \E i, j \in 1..Len(builds) :
        /\ ~KnownSuit(RowOf(i)) /\ builds[i].raised = "KeyError"
        /\ KnownSuit(RowOf(j)) /\ ~ImageResolves(RowOf(j))
        /\ builds[j].raised = "FileNotFoundError"

(***************************************************************************)
(* card_generator.py: lerp, recolor, CardGenerator.apply_color_mapping     *)
(*                                                                         *)
(* An image is its mode, its size and its pixels, a function of the        *)
(* positions (x, y).  A pixel is <<r, g, b, a>> in mode RGBA, <<r, g, b>>  *)
(* in mode RGB, <<l, a>> in mode LA and <<l>> in mode L.                   *)
(*                                                                         *)
(* The source computes the interpolations in double precision.  int() of   *)
(* these doubles is the truncated exact value for t = 0.8 at every pair of *)
(* channel values, and for t = gray / 255.0 at every pair of channel       *)
(* values and the gray values 0, 127, 151, 152 and 255, which are the ones *)
(* the sample pixels below produce.                                        *)
(***************************************************************************)
Positions(size) == (0..(size[1] - 1)) \X (0..(size[2] - 1))

Image(mode, size, pixels) == [mode |-> mode, size |-> size, pixels |-> pixels]

\* The ITU-R 601-2 luma Image.convert("L") computes from a colour pixel.
luma(pixel) == (299 * pixel[1] + 587 * pixel[2] + 114 * pixel[3]) \div 1000

\* Image.convert(mode) from a mode without what `mode` adds: the gray level
\* of a colour pixel is its luma, a missing alpha is 255.
convert(image, mode) ==
    LET to_la(pixel) ==
            CASE image.mode = "L" -> <<pixel[1], 255>>
              [] image.mode = "RGB" -> <<luma(pixel), 255>>
              [] image.mode = "RGBA" -> <<luma(pixel), pixel[4]>>
              [] OTHER -> pixel
        to_rgba(pixel) ==
            CASE image.mode = "L" -> <<pixel[1], pixel[1], pixel[1], 255>>
              [] image.mode = "LA" -> <<pixel[1], pixel[1], pixel[1], pixel[2]>>
              [] image.mode = "RGB" -> <<pixel[1], pixel[2], pixel[3], 255>>
              [] OTHER -> pixel
    IN  Image(mode, image.size,
              [pos \in DOMAIN image.pixels |->
                  IF mode = "LA" THEN to_la(image.pixels[pos])
                  ELSE to_rgba(image.pixels[pos])])

\* lerp(color1, color2, t) for t = t_num / t_den:
\* tuple(int(c1 + (c2 - c1) * t) for c1, c2 in zip(color1, color2))
lerp(color1, color2, t_num, t_den) ==
    [i \in 1..3 |-> PyInt(color1[i] * t_den + (color2[i] - color1[i]) * t_num, t_den)]

\* int(c1 * (1 - t) + c2 * t) for t = gray_value / 255.0
mix(c1, c2, gray_value) ==
    PyInt(c1 * (255 - gray_value) + c2 * gray_value, 255)

\* isinstance(target, str) and target.startswith("#"): color_hex_to_tuple
target_tuple(target) ==
    IF IsHexString(target) THEN color_hex_to_tuple(target) ELSE target

\* A plausible slip: the recoloured pixel is written opaque.
recolor_opaque(image, black_target, white_target) ==
    LET rgba == IF image.mode # "RGBA" THEN convert(image, "RGBA") ELSE image
        bt == target_tuple(black_target)
        wt == target_tuple(white_target)
    IN  Image("RGBA", rgba.size,
              [pos \in DOMAIN rgba.pixels |->
                  LET gray_value == (rgba.pixels[pos][1] + rgba.pixels[pos][2]
                                     + rgba.pixels[pos][3]) \div 3
                  IN  <<mix(bt[1], wt[1], gray_value), mix(bt[2], wt[2], gray_value),
                        mix(bt[3], wt[3], gray_value), 255>>])

\* recolor(image, black_target, white_target)
recolor(image, black_target, white_target) ==
    LET bt == target_tuple(black_target)
        wt == target_tuple(white_target)
        rgba == IF image.mode # "RGBA"
                THEN convert(IF image.mode # "LA" THEN convert(image, "LA") ELSE image,
                             "RGBA")
                ELSE image
        recolored(pixel) ==
            LET alpha == pixel[4]
                gray_value == (pixel[1] + pixel[2] + pixel[3]) \div 3
            IN  <<mix(bt[1], wt[1], gray_value), mix(bt[2], wt[2], gray_value),
                  mix(bt[3], wt[3], gray_value), alpha>>
    IN  Image("RGBA", rgba.size,
              [pos \in DOMAIN rgba.pixels |-> recolored(rgba.pixels[pos])])

\* The image object recolor loads, writes pixel by pixel and returns (lines
\* 61-68, 86, 88): the one Image.convert made, or, for an image that is RGBA
\* already, the object the caller passed.
recolor_object(image) == IF image.mode # "RGBA" THEN "converted" ELSE "argument"

\* The image object apply_color_mapping writes and returns (lines 155, 157,
\* 177-183): the one Image.new made, whatever the mode of the argument; the
\* argument, or its RGBA conversion, is only read.
apply_color_mapping_object(image) == "new"

\* int(0.299 * r + 0.587 * g + 0.114 * b)
gray_of(pixel) == (299 * pixel[1] + 587 * pixel[2] + 114 * pixel[3]) \div 1000

\* A plausible slip: the alpha test dropped, every pixel mapped and opaque.
apply_color_mapping_opaque(self, image) ==
    LET rgba == IF image.mode # "RGBA" THEN convert(image, "RGBA") ELSE image
        color1 == lerp(self.bg_color_primary, self.bg_color_secondary, 8, 10)
        color2 == self.bg_color_secondary
    IN  Image("RGBA", rgba.size,
              [pos \in DOMAIN rgba.pixels |->
                  LET gray_value == gray_of(rgba.pixels[pos])
                  IN  <<mix(color1[1], color2[1], gray_value),
                        mix(color1[2], color2[2], gray_value),
                        mix(color1[3], color2[3], gray_value), 255>>])

\* CardGenerator.apply_color_mapping(image)
apply_color_mapping(self, image) ==
    LET rgba == IF image.mode # "RGBA" THEN convert(image, "RGBA") ELSE image
        color1 == lerp(self.bg_color_primary, self.bg_color_secondary, 8, 10)
        color2 == self.bg_color_secondary
        mapped(pixel) ==
            LET alpha == pixel[4]
                gray_value == gray_of(pixel)
            IN  IF alpha > 0
                THEN <<mix(color1[1], color2[1], gray_value),
                       mix(color1[2], color2[2], gray_value),
                       mix(color1[3], color2[3], gray_value), alpha>>
                ELSE <<0, 0, 0, 0>>
    IN  Image("RGBA", rgba.size,
              [pos \in DOMAIN rgba.pixels |-> mapped(rgba.pixels[pos])])

(***************************************************************************)
(* card_generator.py: CardGenerator.create_chess_pattern_texture           *)
(***************************************************************************)
\* A plausible slip: the logos on the odd cells of the checkerboard.
shows_logo_on_odd(row, col) == (row + col) % 2 = 1

\* if (row + col) % 2 == 0
shows_logo(row, col) == (row + col) % 2 = 0

\* The pixel of the pattern at pos after pattern.paste(logo, xy, logo).
paste_logo(pixel, pos, logo, xy) ==
    LET at == <<pos[1] - xy[1], pos[2] - xy[2]>>
    IN  IF at \in DOMAIN logo.pixels
        THEN paste_masked(pixel, logo.pixels[at], logo.pixels[at][4])
        ELSE pixel

RECURSIVE PasteLogos(_, _, _, _, _)
PasteLogos(pixel, pos, logo, pastes, n) ==
    IF n = 0 THEN pixel
    ELSE paste_logo(PasteLogos(pixel, pos, logo, pastes, n - 1), pos, logo, pastes[n])

\* create_chess_pattern_texture(texture_image, pattern_size, logo_size), for
\* the image `resized` that Image.open(texture_image).resize((logo_size,
\* logo_size)) gives: the pattern, and the positions of the pastes made.
create_chess_pattern_texture(self, resized, pattern_size, logo_size) ==
    LET pattern_width == pattern_size[1]
        pattern_height == pattern_size[2]
        logo == apply_color_mapping(self, resized)
        logo_spacing == logo_size + 20
        cols == pattern_width \div logo_spacing + 2
        rows == pattern_height \div logo_spacing + 2
        cells == [k \in 1..(rows * cols) |-> <<(k - 1) \div cols, (k - 1) % cols>>]
        shown == SelectSeq(cells,
                           LAMBDA c : /\ shows_logo(c[1], c[2])
                                      /\ c[2] * logo_spacing < pattern_width
                                      /\ c[1] * logo_spacing < pattern_height)
        pastes == [k \in 1..Len(shown) |->
                      <<shown[k][2] * logo_spacing, shown[k][1] * logo_spacing>>]
        background == self.bg_color_secondary \o <<255>>
    IN  [mode |-> "RGBA", size |-> pattern_size,
         pixels |-> [pos \in Positions(pattern_size) |->
                        PasteLogos(background, pos, logo, pastes, Len(pastes))],
         pastes |-> pastes]

\* The colours of the sample pixels: black, white, a gray, an orange whose
\* luma (151) differs from the average of its channels (127).
SampleColors == {<<0, 0, 0>>, <<255, 255, 255>>, <<152, 152, 152>>, <<255, 128, 0>>}

SampleAlphas == {0, 128, 255}

SamplePixels(mode) ==
    CASE mode = "RGBA" -> {c \o <<a>> : c \in SampleColors, a \in SampleAlphas}
      [] mode = "RGB" -> SampleColors
      [] mode = "LA" -> {<<l, a>> : l \in {0, 152, 255}, a \in SampleAlphas}
      [] OTHER -> {<<l>> : l \in {0, 152, 255}}

SampleSizes == {<<w, 1>> : w \in 1..MaxImageWidth}

SampleImages(modes) ==
    UNION { { Image(mode, size, pixels) : pixels \in [Positions(size) -> SamplePixels(mode)] }
            : mode \in modes, size \in SampleSizes }

\* The generators the image functions are called on: a suit's, the default.
SampleGenerators ==
    { CardGenerator([bg_color_primary |-> SUIT_COLOR_MAP[<<"C", "h", "a", "t">>][1],
                     bg_color_secondary |-> SUIT_COLOR_MAP[<<"C", "h", "a", "t">>][2]]),
      CardGenerator([bg_color_primary |-> <<0, 0, 0>>,
                     bg_color_secondary |-> <<255, 255, 255>>]),
      CardGenerator(<<>>) }

\* The (black_target, white_target) pairs recolor is called with: the flag's
\* (create_card), and two pairs of RGB tuples.
SampleTargets(self) ==
    { [black_target |-> <<"#", "0", "0", "0", "0", "0", "0">>,
       white_target |-> self.bg_color_primary],
      [black_target |-> self.bg_color_primary, white_target |-> self.bg_color_secondary],
      [black_target |-> <<"#", "1", "9", "7", "6", "D", "2">>,
       white_target |-> <<"#", "F", "F", "8", "B", "8", "B">>] }

\* The resized logos: of one opaque colour, or transparent but for an
\* opaque or half-transparent pixel in its corner.
SampleLogos(logo_size) ==
    { Image("RGBA", <<logo_size, logo_size>>,
            [pos \in Positions(<<logo_size, logo_size>>) |->
                IF pos = <<0, 0>> THEN corner ELSE rest])
      : corner \in {<<0, 0, 0, 255>>, <<255, 255, 255, 128>>},
        rest \in {<<0, 0, 0, 255>>, <<255, 255, 255, 0>>} }

\* Pattern sizes around the multiples of the stride logo_size + 20.
SamplePatternSizes(logo_size) ==
    LET stride == logo_size + 20
        lengths == {1, stride, stride + 1, MaxPatternCells * stride + 1}
    IN  lengths \X lengths

ImageInit ==
    /\ FontIdle /\ JustifyIdle /\ CardIdle /\ DriverIdle /\ SaveIdle /\ NotionIdle
    /\ im_op \in {"apply_color_mapping", "recolor", "create_chess_pattern_texture"}
    /\ im_self \in SampleGenerators
    /\ im_args \in
         CASE im_op = "apply_color_mapping" ->
                  [image : SampleImages({"RGBA", "RGB", "L"})]
           [] im_op = "recolor" ->
                  { [image |-> i, black_target |-> t.black_target,
                     white_target |-> t.white_target]
                    : i \in SampleImages({"RGBA", "LA", "RGB", "L"}),
                      t \in SampleTargets(im_self) }
           [] im_op = "create_chess_pattern_texture" ->
                  UNION { [resized : SampleLogos(n), pattern_size : SamplePatternSizes(n),
                           logo_size : {n}] : n \in 1..MaxLogoSize }
    /\ im_pc = "ready"
    /\ im_result = <<>>
    /\ im_image = (IF im_op = "create_chess_pattern_texture" THEN im_args.resized
                   ELSE im_args.image)
    /\ im_object = "none"

ImageFrame ==
    UNCHANGED <<fs_vars, jt_vars, cc_vars, dr_vars, sc_vars, nt_vars, im_op, im_self,
                im_args>>

ApplyColorMapping ==
    /\ im_op = "apply_color_mapping" /\ im_pc = "ready"
    /\ im_result' = apply_color_mapping(im_self, im_args.image)
    /\ im_object' = apply_color_mapping_object(im_args.image)
    /\ im_image' = (IF im_object' = "argument" THEN im_result' ELSE im_image)
    /\ im_pc' = "returned"
    /\ ImageFrame

Recolor ==
    /\ im_op = "recolor" /\ im_pc = "ready"
    /\ im_result' = recolor(im_args.image, im_args.black_target, im_args.white_target)
    /\ im_object' = recolor_object(im_args.image)
    /\ im_image' = (IF im_object' = "argument" THEN im_result' ELSE im_image)
    /\ im_pc' = "returned"
    /\ ImageFrame

CreateChessPatternTexture ==
    /\ im_op = "create_chess_pattern_texture" /\ im_pc = "ready"
    /\ im_result' = create_chess_pattern_texture(im_self, im_args.resized,
                                                 im_args.pattern_size, im_args.logo_size)
    /\ im_object' = "new"
    /\ UNCHANGED im_image
    /\ im_pc' = "returned"
    /\ ImageFrame

ImageNext == ApplyColorMapping \/ Recolor \/ CreateChessPatternTexture

SpecImage == ImageInit /\ [][ImageNext]_vars

(***************************************************************************)
(* Claims about apply_color_mapping and recolor (checked under SpecImage). *)
(***************************************************************************)
Returned(op) == im_op = op /\ im_pc = "returned"

\* The RGB channels of c are those of d, each within 1.
Within1(c, d) == \A i \in 1..3 : c[i] - d[i] \in -1..1

\* The colour and the alpha of the pixel of `image` at pos, whatever its mode.
SourceColor(image, pos) ==
    LET pixel == image.pixels[pos]
    IN  IF image.mode \in {"RGBA", "RGB"} THEN <<pixel[1], pixel[2], pixel[3]>>
        ELSE <<pixel[1], pixel[1], pixel[1]>>

SourceAlpha(image, pos) ==
    CASE image.mode = "RGBA" -> image.pixels[pos][4]
      [] image.mode = "LA" -> image.pixels[pos][2]
      [] OTHER -> 255

\* C11: apply_color_mapping maps a visible source pixel of gray value 0 to
\* the primary colour and one of gray value 255 to the secondary colour, each
\* channel within 1.
C11_EndpointColors ==
    Returned("apply_color_mapping") =>
        \A pos \in DOMAIN im_result.pixels :
            SourceAlpha(im_args.image, pos) > 0 =>
                /\ SourceColor(im_args.image, pos) = <<0, 0, 0>>
                       => Within1(im_result.pixels[pos], im_self.bg_color_primary)
                /\ SourceColor(im_args.image, pos) = <<255, 255, 255>>
                       => Within1(im_result.pixels[pos], im_self.bg_color_secondary)

\* C12: apply_color_mapping is alpha-preserving.  The result has the size of
\* the source, every output pixel has the alpha of the source pixel at its
\* position, and a source pixel of alpha 0 yields (0, 0, 0, 0).
C12_AlphaPreserved ==
    Returned("apply_color_mapping") =>
        /\ im_result.mode = "RGBA"
        /\ im_result.size = im_args.image.size
        /\ DOMAIN im_result.pixels = Positions(im_args.image.size)
        /\ \A pos \in DOMAIN im_result.pixels :
               /\ im_result.pixels[pos][4] = SourceAlpha(im_args.image, pos)
               /\ SourceAlpha(im_args.image, pos) = 0
                      => im_result.pixels[pos] = <<0, 0, 0, 0>>

\* A mapped image with a transparent white pixel beside a half-transparent one.
C12_Witness ==
    /\ Returned("apply_color_mapping")
    /\ im_args.image.size = <<2, 1>>
    /\ im_args.image.pixels[<<0, 0>>] = <<255, 255, 255, 0>>
    /\ im_args.image.pixels[<<1, 0>>][4] = 128
    /\ im_result.pixels[<<0, 0>>] = <<0, 0, 0, 0>>
    /\ im_result.pixels[<<1, 0>>][4] = 128

\* The pixel recolor writes for a source pixel of gray value `gray` and
\* alpha `alpha`.
Interpolated(gray, alpha) ==
    LET bt == target_tuple(im_args.black_target)
        wt == target_tuple(im_args.white_target)
        channel(i) == ((bt[i] * (255 - gray) + wt[i] * gray) \div 255)
    IN  <<channel(1), channel(2), channel(3), alpha>>

AverageOfChannels(image, pos) ==
    LET c == SourceColor(image, pos) IN (c[1] + c[2] + c[3]) \div 3

\* C13 as stated: recolor maps every pixel by linear interpolation keyed on
\* gray = (R+G+B) div 3 of the source pixel, and keeps its alpha.
C13_KeyedOnAverage ==
    Returned("recolor") =>
        \A pos \in DOMAIN im_result.pixels :
            im_result.pixels[pos] =
                Interpolated(AverageOfChannels(im_args.image, pos),
                             SourceAlpha(im_args.image, pos))

\* The gray value recolor interpolates on: the average of the channels of an
\* RGBA pixel, the gray level of the LA conversion (the luma of a colour
\* pixel) in the other modes.
RecolorKey(image, pos) ==
    IF image.mode = "RGB"
    THEN (299 * image.pixels[pos][1] + 587 * image.pixels[pos][2]
          + 114 * image.pixels[pos][3]) \div 1000
    ELSE AverageOfChannels(image, pos)

\* C13, amended: recolor maps every pixel by linear interpolation between
\* black_target and white_target, keyed on (R+G+B) div 3 for an RGBA image
\* and on the gray level of the LA conversion for an image of another mode;
\* a black pixel becomes black_target, a white pixel white_target, and the
\* alpha of every pixel is kept (255 where the source has none).
C13_Recolor ==
    Returned("recolor") =>
        /\ im_result.size = im_args.image.size
        /\ \A pos \in DOMAIN im_result.pixels :
               /\ im_result.pixels[pos] =
                      Interpolated(RecolorKey(im_args.image, pos),
                                   SourceAlpha(im_args.image, pos))
               /\ SourceColor(im_args.image, pos) = <<0, 0, 0>>
                      => SubSeq(im_result.pixels[pos], 1, 3)
                             = target_tuple(im_args.black_target)
               /\ SourceColor(im_args.image, pos) = <<255, 255, 255>>
                      => SubSeq(im_result.pixels[pos], 1, 3)
                             = target_tuple(im_args.white_target)

\* recolor returned for an RGB image with an orange pixel, keyed on its luma
\* 151, and for black and white targets the result is the gray 151.
C13_Witness ==
    /\ Returned("recolor")
    /\ im_args.image.mode = "RGB"
    /\ im_args.image.pixels[<<0, 0>>] = <<255, 128, 0>>
    /\ im_args.black_target = <<0, 0, 0>>
    /\ im_args.white_target = <<255, 255, 255>>
    /\ im_result.pixels[<<0, 0>>] = <<151, 151, 151, 255>>

(***************************************************************************)
(* Claims about the layers of create_card (checked under SpecCard).        *)
(***************************************************************************)
\* The positions in the canvas's operations of the pastes of the flag.
FlagPastes == {i \in 1..Len(card) : card[i].what = "flag"}

\* What the recolor of the flag paste `i` makes of an opaque pixel of the
\* flag asset of colour `color`.
FlagPixel(i, color) ==
    recolor(Image("RGBA", <<1, 1>>, [pos \in Positions(<<1, 1>>) |-> color \o <<255>>]),
            card[i].colors[1], card[i].colors[2]).pixels[<<0, 0>>]

\* C14 as stated: the flag is recoloured with the suit's primary colour as
\* the black target, so black pixels of the flag come out in the primary
\* colour.
C14_BlackBecomesPrimary ==
    \A i \in FlagPastes :
        /\ card[i].colors[1] = generator.bg_color_primary
        /\ FlagPixel(i, <<0, 0, 0>>) = generator.bg_color_primary \o <<255>>

\* C14, amended: in every build the flag is recoloured once, with black as
\* the black target and the suit's primary colour as the white target, so
\* white pixels of the flag come out in the primary colour and black pixels
\* stay black.
C14_WhiteBecomesPrimary ==
    /\ \A i \in FlagPastes :
           /\ card[i].colors = <<<<0, 0, 0>>, generator.bg_color_primary>>
           /\ FlagPixel(i, <<255, 255, 255>>) = generator.bg_color_primary \o <<255>>
           /\ FlagPixel(i, <<0, 0, 0>>) = <<0, 0, 0, 255>>
    /\ cc_pc = "returned" => Cardinality(FlagPastes) = 1

\* A finished build whose flag was recoloured to a primary colour other
\* than black.
C14_Witness ==
    /\ cc_pc = "returned"
    /\ FlagPastes # {}
    /\ generator.bg_color_primary = <<211, 47, 47>>

\* The layers applied to the canvas so far, in order: what each operation
\* drew or pasted, runs of the same layer counted once.
RECURSIVE Collapse(_)
Collapse(names) ==
    IF Len(names) < 2 THEN names
    ELSE IF names[1] = names[2] THEN Collapse(Tail(names))
         ELSE <<names[1]>> \o Collapse(Tail(names))

AppliedLayers == Collapse([i \in 1..Len(card) |-> card[i].what])

IsPrefix(short, long) ==
    /\ Len(short) <= Len(long)
    /\ \A i \in 1..Len(short) : short[i] = long[i]

\* The description paragraph is a layer when the description has a word.
DescriptionLayer == IF BlankDescription THEN <<>> ELSE <<"description">>

\* C15 as stated: the layers are applied in the order base canvas, bottom
\* texture, character artwork, scroll banner, flag ribbon, rotated suit
\* label, glyph badge with the numeric value, title text, description
\* paragraph, final mask.
C15_ClaimedOrder ==
    IsPrefix(AppliedLayers,
             <<"base", "bottom_texture", "character", "scroll", "flag", "suit_label",
               "glyph", "number_outline", "number", "title">>
             \o DescriptionLayer \o <<"rounded_mask">>)

\* The order of the statements of create_card.
StatementOrder ==
    <<"base", "character", "bottom_texture", "character", "scroll", "title", "flag",
      "suit_label", "glyph", "number_outline", "number">>
    \o DescriptionLayer \o <<"rounded_mask">>

\* C15, amended: every build applies its layers in the same fixed order:
\* base canvas, character artwork, bottom texture, character artwork again,
\* scroll banner, title text, flag ribbon, rotated suit label, glyph badge,
\* numeric value (outline, then fill), description paragraph, final mask; in
\* particular the title is drawn after the scroll and before the flag, the
\* suit label, the badge and the description.
C15_StatementOrder ==
    /\ IsPrefix(AppliedLayers, StatementOrder)
    /\ cc_pc = "returned" => AppliedLayers = StatementOrder

\* A finished build with a description paragraph, the title drawn sixth.
C15_Witness ==
    /\ cc_pc = "returned"
    /\ ~BlankDescription
    /\ Len(AppliedLayers) = 13
    /\ AppliedLayers[6] = "title"
    /\ AppliedLayers[7] = "flag"

(***************************************************************************)
(* Claims about the pixels of the canvas (checked under SpecPixel).        *)
(***************************************************************************)
MaskOps == {i \in 1..Len(card) : card[i].op = "putalpha"}

\* The sample positions in the corners cut off by the rounded rectangle.
CutCorners == {<<0, 0>>, <<749, 1049>>}

\* C16: the rounded-corner mask is applied exactly once per build, as the
\* last operation after every paste and draw call, and the alpha of the
\* returned card is the mask: 0 outside the rounded rectangle and 255 inside,
\* whatever alpha the earlier layers left there.
C16_MaskOnceAtEnd ==
    /\ cc_pc # "returned" => MaskOps = {}
    /\ cc_pc = "returned" =>
           /\ MaskOps = {Len(card)}
           /\ px[4] = IF probe.pos \in CutCorners THEN 0 ELSE 255

\* Two finished builds in one: a corner position that opaque artwork and an
\* opaque scroll cover comes out transparent; so the mask, not the layers,
\* decides the alpha.
C16_Witness ==
    /\ cc_pc = "returned"
    /\ probe.pos = <<0, 0>>
    /\ probe.src["character"][4] = 255
    /\ probe.src["scroll"][4] = 255
    /\ px = <<10, 20, 30, 0>>

\* The layer the statement at `pc` pastes.
PastedAt(pc) ==
    CASE pc = "character" -> "character"
      [] pc = "texture" -> "bottom_texture"
      [] pc = "character_again" -> "character"
      [] pc = "scroll" -> "scroll"
      [] pc = "flag" -> "flag"
      [] pc = "suit_label" -> "suit_label"
      [] OTHER -> "glyph"

PasteSteps ==
    {"character", "texture", "character_again", "scroll", "flag", "suit_label", "glyph"}

\* C17: for every layer create_card composites onto the canvas (character
\* artwork, bottom texture, scroll, flag, suit label, glyph), a source pixel
\* with alpha 0 leaves the destination pixel at that location unchanged.
C17_TransparentSourceKeeps ==
    [][(/\ cc_pc \in PasteSteps
        /\ cc_pc' # "raised"
        /\ probe.src[PastedAt(cc_pc)][4] = 0) => px' = px]_vars

(***************************************************************************)
(* Claims about create_chess_pattern_texture (checked under SpecImage).    *)
(***************************************************************************)
\* The positions of the pastes made onto the returned pattern.
PasteOrigins == {im_result.pastes[k] : k \in 1..Len(im_result.pastes)}

\* The position lies in the logo pasted at origin.
InLogoAt(pos, origin) ==
    /\ pos[1] - origin[1] \in 0..(im_args.logo_size - 1)
    /\ pos[2] - origin[2] \in 0..(im_args.logo_size - 1)

\* C18: create_chess_pattern_texture returns an image of exactly pattern_size
\* in which a logo is pasted at (col * stride, row * stride), with stride =
\* logo_size + 20, for exactly the cells with (row + col) even whose origin
\* lies inside the pattern, once each, and every pixel no pasted logo covers
\* keeps the opaque secondary colour.
C18_ChessPattern ==
    Returned("create_chess_pattern_texture") =>
        LET stride == im_args.logo_size + 20
            width == im_args.pattern_size[1]
            height == im_args.pattern_size[2]
        IN  /\ im_result.mode = "RGBA"
            /\ im_result.size = im_args.pattern_size
            /\ DOMAIN im_result.pixels = Positions(im_args.pattern_size)
            /\ PasteOrigins =
                   { <<cell[2] * stride, cell[1] * stride>> :
                       cell \in { c \in (0..height) \X (0..width) :
                                    /\ (c[1] + c[2]) % 2 = 0
                                    /\ c[2] * stride < width
                                    /\ c[1] * stride < height } }
            /\ Cardinality(PasteOrigins) = Len(im_result.pastes)
            /\ \A pos \in Positions(im_args.pattern_size) :
                   (\A origin \in PasteOrigins : ~InLogoAt(pos, origin))
                       => im_result.pixels[pos] = im_self.bg_color_secondary \o <<255>>

\* A pattern at least three cells wide and high: the logos of the cells
\* (0, 0), (0, 2), (1, 1), (2, 0), (2, 2) at least, a half-transparent logo
\* pixel mixed into the secondary colour, the secondary colour between the
\* logos.
C18_Witness ==
    /\ Returned("create_chess_pattern_texture")
    /\ im_args.logo_size = 2
    /\ im_args.pattern_size[1] > 44 /\ im_args.pattern_size[2] > 44
    /\ im_args.resized.pixels[<<0, 0>>] = <<255, 255, 255, 128>>
    /\ im_args.resized.pixels[<<1, 1>>] = <<255, 255, 255, 0>>
    /\ Len(im_result.pastes) >= 5
    /\ <<22, 22>> \in PasteOrigins
    /\ im_result.pixels[<<22, 22>>] # im_self.bg_color_secondary \o <<255>>
    /\ im_result.pixels[<<23, 23>>] = im_self.bg_color_secondary \o <<255>>
    /\ im_result.pixels[<<22, 0>>] = im_self.bg_color_secondary \o <<255>>

(***************************************************************************)
(* card_generator.py: CardGenerator.save_card                              *)
(*   os.makedirs(os.path.dirname(output_path), exist_ok=True)              *)
(*   card.save(output_path, "PNG")                                         *)
(* Paths are strings over two names and the separator.  A location of the  *)
(* file system is the tuple of names from "/" (absolute path) or from "."  *)
(* (the working directory, which is not the root).                         *)
(***************************************************************************)
\* The longest output_path tried.
MaxPathLen == 3

PathChars == {"a", "b", "/"}

\* p.rfind("/") + 1
rfind_sep(p) ==
    IF \E i \in 1..Len(p) : p[i] = "/"
    THEN CHOOSE i \in 1..Len(p) : p[i] = "/" /\ \A j \in (i + 1)..Len(p) : p[j] # "/"
    ELSE 0

\* head.rstrip("/")
RECURSIVE rstrip_sep(_)
rstrip_sep(head) ==
    IF head # <<>> /\ head[Len(head)] = "/"
    THEN rstrip_sep(SubSeq(head, 1, Len(head) - 1))
    ELSE head

\* os.path.dirname (posixpath): everything before the last separator, the
\* trailing separators removed unless the head is separators only.
dirname(p) ==
    LET head == SubSeq(p, 1, rfind_sep(p))
    IN  IF head # <<>> /\ \E i \in 1..Len(head) : head[i] # "/"
        THEN rstrip_sep(head)
        ELSE head

\* The names of a path, in order; empty names (doubled, leading and
\* trailing separators) name nothing.
RECURSIVE names(_)
names(p) ==
    IF p = <<>> THEN <<>>
    ELSE IF p[1] = "/" THEN names(Tail(p))
    ELSE LET rest == Tail(p)
             more == names(rest)
         IN  IF rest # <<>> /\ rest[1] # "/"
             THEN <<p[1] \o Head(more)>> \o Tail(more)
             ELSE <<p[1]>> \o more

\* The location a non-empty path names.
Loc(p) == (IF p[1] = "/" THEN <<"/">> ELSE <<".">>) \o names(p)

\* The locations on the way to loc, loc included.
Prefixes(loc) == {SubSeq(loc, 1, n) : n \in 1..Len(loc)}

\* os.makedirs(name, exist_ok=True): the directories afterwards and the
\* exception raised.  mkdir("") raises FileNotFoundError; a regular file on
\* the way raises (NotADirectoryError, or FileExistsError for name itself).
makedirs(name, dirs, files) ==
    IF name = <<>>
    THEN [dirs |-> dirs, raised |-> "FileNotFoundError"]
    ELSE IF Loc(name) \in DOMAIN files
    THEN [dirs |-> dirs, raised |-> "FileExistsError"]
    ELSE IF Prefixes(Loc(name)) \cap DOMAIN files # {}
    THEN [dirs |-> dirs, raised |-> "NotADirectoryError"]
    ELSE [dirs |-> dirs \cup Prefixes(Loc(name)), raised |-> "none"]

\* Image.save(fp, "PNG") with a path: open(fp, "w+b") and the PNG written.
save(data, fp, dirs, files) ==
    IF fp = <<>>
    THEN [files |-> files, raised |-> "FileNotFoundError"]
    ELSE IF Loc(fp) \in dirs \/ (fp[Len(fp)] = "/" /\ Loc(fp) \notin DOMAIN files)
    THEN [files |-> files, raised |-> "IsADirectoryError"]
    ELSE IF fp[Len(fp)] = "/" \/ Prefixes(Loc(fp)) \cap DOMAIN files \notin {{}, {Loc(fp)}}
    THEN [files |-> files, raised |-> "NotADirectoryError"]
    ELSE IF SubSeq(Loc(fp), 1, Len(Loc(fp)) - 1) \notin dirs
    THEN [files |-> files, raised |-> "FileNotFoundError"]
    ELSE [files |-> [l \in DOMAIN files \cup {Loc(fp)} |->
                        IF l = Loc(fp) THEN data ELSE files[l]],
          raised |-> "none"]

\* Every path of 1..n characters.
PathsUpTo(n) == UNION {[1..k -> PathChars] : k \in 1..n}

\* File systems before the call: only the root and the working directory;
\* a directory a; directories a and a/b; a regular file ./a; a directory a
\* with a regular file a/b.
SampleFileSystems ==
    LET top == {<<"/">>, <<".">>}
        none == [l \in {} |-> "old"]
    IN  { [dirs |-> top, files |-> none],
          [dirs |-> top \cup {<<".", "a">>}, files |-> none],
          [dirs |-> top \cup {<<".", "a">>, <<".", "a", "b">>}, files |-> none],
          [dirs |-> top, files |-> [l \in {<<".", "a">>} |-> "old"]],
          [dirs |-> top \cup {<<".", "a">>}, files |-> [l \in {<<".", "a", "b">>} |-> "old"]] }

SaveInit ==
    /\ FontIdle /\ JustifyIdle /\ CardIdle /\ DriverIdle /\ ImageIdle /\ NotionIdle
    /\ sc_path \in PathsUpTo(MaxPathLen)
    /\ \E fsys \in SampleFileSystems : sc_dirs = fsys.dirs /\ sc_files = fsys.files
    /\ sc_pc = "makedirs"
    /\ sc_raised = "none"

SaveFrame == UNCHANGED <<fs_vars, jt_vars, cc_vars, dr_vars, im_vars, nt_vars, sc_path>>

\* os.makedirs(os.path.dirname(output_path), exist_ok=True)
MakeDirs ==
    /\ sc_pc = "makedirs"
    /\ \E made \in {makedirs(dirname(sc_path), sc_dirs, sc_files)} :
          /\ sc_dirs' = made.dirs
          /\ sc_raised' = made.raised
          /\ sc_pc' = IF made.raised = "none" THEN "save" ELSE "raised"
    /\ UNCHANGED sc_files
    /\ SaveFrame

\* card.save(output_path, "PNG")
SaveCard ==
    /\ sc_pc = "save"
    /\ \E saved \in {save("PNG card", sc_path, sc_dirs, sc_files)} :
          /\ sc_files' = saved.files
          /\ sc_raised' = saved.raised
          /\ sc_pc' = IF saved.raised = "none" THEN "returned" ELSE "raised"
    /\ UNCHANGED sc_dirs
    /\ SaveFrame

SaveNext == MakeDirs \/ SaveCard

SpecSave == SaveInit /\ [][SaveNext]_vars

\* The calls of create_card that have returned: the earlier ones and, once
\* it has returned, the running one.
ReturnedBuilds ==
    finished \o (IF cc_pc = "returned"
                 THEN <<[args |-> cc_args, card |-> card, px |-> px]>>
                 ELSE <<>>)

CanNameFile(p, dirs, files) ==
    /\ p # <<>> /\ p[Len(p)] # "/"
    /\ Loc(p) \notin dirs
    /\ Prefixes(Loc(p)) \cap DOMAIN files \subseteq {Loc(p)}

\* save_card has stopped, with an exception or not.
SaveEnded == sc_pc \in {"returned", "raised"}

\* C20: save_card persists the card as a PNG at every output path that can
\* name a file, creating the missing intermediate directories, a path with
\* no directory component included: when save_card has ended it has raised
\* nothing and the file at the path holds the card.
C20_SavedAtAnyPath ==
    (SaveEnded /\ CanNameFile(sc_path, sc_dirs, sc_files))
        => /\ sc_raised = "none"
           /\ Loc(sc_path) \in DOMAIN sc_files
           /\ sc_files[Loc(sc_path)] = "PNG card"


(***************************************************************************)
(* Properties of generate_pdf and generate_home_pdf.                       *)
(***************************************************************************)
PdfDone == driver = "generate_pdf" /\ dr_pc = "done"

\* The page of a record in the PDF of generate_pdf: its card between cutting
\* lines, or an error message for it.
CardPage(i) == <<Item("cutting_lines", i, 0), Item("card", i, 0)>>

ErrorPages(i) == {<<Item("error", i, 0)>>,
                  <<Item("cutting_lines", i, 0), Item("error", i, 0)>>}

\* C21: when generate_pdf has ended on n records, whichever of them failed,
\* the PDF has exactly n + 1 pages; page i holds the card of the i-th record
\* and nothing of another record, or an error message for that record (always
\* so when its build failed); the last page holds the cover (or the message
\* that the cover could not be drawn) and nothing of a record.
C21_PdfPages ==
    PdfDone =>
        /\ Len(pages) = Len(notion_rows) + 1
        /\ \A i \in 1..Len(notion_rows) :
              /\ pages[i] \in {CardPage(i)} \cup ErrorPages(i)
              /\ builds[i].raised # "none" => pages[i] \in ErrorPages(i)
        /\ pages[Len(pages)] \in {CardPage(0), <<Item("cutting_lines", 0, 0), Item("cover", 0, 0)>>}
                                  \cup ErrorPages(0)
        /\ pages[Len(pages)] # CardPage(0)

\* generate_pdf has ended on three records, the first drawn and the second
\* failed.
C21_Witness ==
    /\ PdfDone
    /\ Len(notion_rows) = 3
    /\ pages[1] = CardPage(1)
    /\ builds[2].raised # "none"
    /\ pages[4] = <<Item("cutting_lines", 0, 0), Item("cover", 0, 0)>>

HomeDone == driver = "generate_home_pdf" /\ dr_pc = "done"

\* ceil(n / 9), the number of sheets the claims speak of.
Sheets(n) == (n + 8) \div 9

\* The number of front slots used on sheet k (1-based) for n records.
UsedSlots(n, k) == IF n - (k - 1) * 9 < 9 THEN n - (k - 1) * 9 ELSE 9

\* The slots of the items of a page.
SlotsOf(items) == {items[j].slot : j \in 1..Len(items)}

\* The front slot (row, col) seen from the back of the sheet: (row, 2 - col).
MirroredSlot(slot) == (slot \div 3) * 3 + (2 - (slot % 3))

\* The total generate_home_pdf printed.
PrintedTotal == printed[Len(printed)].record

\* C22: when generate_home_pdf has ended on n records, the PDF has
\* 2 * ceil(n / 9) pages; every odd page holds at most 9 items, each the
\* front of a record (or its error placeholder); every even page holds one
\* cover (or cover placeholder) per used front slot of the page before it,
\* at the mirrored slots; and the total printed is the number of pages.
C22_FrontsAndBacks ==
    HomeDone =>
        /\ Len(pages) = 2 * Sheets(Len(notion_rows))
        /\ \A k \in 1..Sheets(Len(notion_rows)) :
              LET front == pages[2 * k - 1]
                  back == pages[2 * k]
                  used == UsedSlots(Len(notion_rows), k)
              IN  /\ Len(front) <= 9
                  /\ \A j \in 1..Len(front) :
                        /\ front[j].kind \in {"card", "error"}
                        /\ front[j].record \in ((k - 1) * 9 + 1)..((k - 1) * 9 + used)
                  /\ Len(back) = used
                  /\ \A j \in 1..Len(back) : back[j].record = 0
                  /\ SlotsOf(back) = {MirroredSlot(slot) : slot \in 0..(used - 1)}
        /\ printed[Len(printed)].text = "Total pages"
        /\ PrintedTotal = Len(pages)

\* The same for at least one record.
C22_WithRecords == Len(notion_rows) >= 1 => C22_FrontsAndBacks

\* The items of record i on page p of the PDF.
ItemsOf(i, p) == SelectSeq(pages[p], LAMBDA item : item.record = i)

\* C27: when generate_home_pdf has ended, the record at index i (from 0) whose
\* card was built has one item in the PDF, its card or the placeholder of a
\* failed drawing, in slot i mod 9 of the front page of sheet i div 9; a
\* record whose build failed has no item, and its slot stays empty.
C27_SlotOfRecord ==
    HomeDone =>
        \A i \in 1..Len(notion_rows) :
            LET front == 2 * ((i - 1) \div 9) + 1
            IN  /\ \A p \in 1..Len(pages) : p # front => ItemsOf(i, p) = <<>>
                /\ builds[i].raised = "none"
                      => /\ Len(ItemsOf(i, front)) = 1
                         /\ ItemsOf(i, front)[1].kind \in {"card", "error"}
                         /\ ItemsOf(i, front)[1].slot = (i - 1) % 9
                /\ builds[i].raised # "none"
                      => /\ ItemsOf(i, front) = <<>>
                         /\ (i - 1) % 9 \notin SlotsOf(pages[front])

\* Ten records, the second and the ninth failed: the third card is in slot 2
\* of page 1, slots 1 and 8 of that page are empty, and the tenth card is in
\* slot 0 of page 3.
C27_Witness ==
    /\ HomeDone
    /\ Len(notion_rows) = 10
    /\ builds[2].raised # "none" /\ builds[9].raised # "none"
    /\ SlotsOf(pages[1]) = {0, 2, 3, 4, 5, 6, 7}
    /\ ItemsOf(3, 1) = <<Item("card", 3, 2)>>
    /\ ItemsOf(10, 3) = <<Item("card", 10, 0)>>

\* The file the script saved the card of record i to.
OutputPath(i) == CardPath("outputs/cards/", builds[i].slug)

TempFiles == {f \in disk : f.kind \in {"outputs/temp_card_", "outputs/temp_home_card_"}}

C29_HomeTempFilesRemoved == HomeDone => TempFiles = {}

ImageReturned(op) == im_op = op /\ im_pc = "returned"

\* C30: after recolor(image, ...) or apply_color_mapping(image) has returned,
\* the image object the caller passed holds the pixels it held at the call,
\* and the image returned is another object.
C30_InputUntouched ==
    (ImageReturned("recolor") \/ ImageReturned("apply_color_mapping"))
        => /\ im_image = im_args.image
           /\ im_object # "argument"

\* The same for apply_color_mapping alone.
C30_MappingLeavesInput ==
    ImageReturned("apply_color_mapping")
        => im_image = im_args.image /\ im_object # "argument"

\* The same for recolor of an image that is not RGBA.
C30_RecolorOfOtherModes ==
    (ImageReturned("recolor") /\ im_args.image.mode # "RGBA")
        => im_image = im_args.image /\ im_object # "argument"

(***************************************************************************)
(* notion.py: fetch_notion_card_database                                   *)
(* The response of notion.databases.query and the suit cache of            *)
(* fetch_notion_suit_database are inputs.  A Python value is a record:     *)
(* None, a str (its characters), an int, a list.                           *)
(***************************************************************************)
\* The longest response tried, in pages.
MaxPages == 2

PyNone == [py |-> "None"]

PyStr(chars) == [py |-> "str", v |-> chars]

PyNum(n) == [py |-> "int", v |-> n]

PyList(items) == [py |-> "list", v |-> items]

\* DATABASE_FIELDS, as (slug, verbose) pairs
DATABASE_FIELDS ==
    << <<"name", "Nom">>, <<"prompt", "AI image prompt">>, <<"suit", "Type de carte">>,
       <<"points", "Points">>, <<"description", "Description">> >>

\* field_map = {verbose: slug for slug, verbose in DATABASE_FIELDS}
field_map ==
    [verbose \in {DATABASE_FIELDS[k][2] : k \in 1..Len(DATABASE_FIELDS)} |->
        (CHOOSE pair \in {DATABASE_FIELDS[k] : k \in 1..Len(DATABASE_FIELDS)} :
            pair[2] = verbose)[1]]

\* "".join([text.get("plain_text", "") for text in ...])
RECURSIVE join_plain_text(_)
join_plain_text(texts) ==
    IF texts = <<>> THEN <<>> ELSE Head(texts) \o join_plain_text(Tail(texts))

\* extract_simple_field_value(property_data, property_type, notion, suit_cache)
\* for the property types of the card database and one unsupported type.
\* Of a relation only the first page id is looked up: it is returned from
\* the cache or ValueError is raised.
extract_simple_field_value(property_data, property_type, suit_cache) ==
    CASE property_type = "title" ->
             [raised |-> "none", value |-> PyStr(join_plain_text(property_data.title))]
      [] property_type = "rich_text" ->
             [raised |-> "none", value |-> PyStr(join_plain_text(property_data.rich_text))]
      [] property_type = "number" ->
             [raised |-> "none", value |-> property_data.number]
      [] property_type = "relation" ->
             IF property_data.relation = <<>> THEN [raised |-> "none", value |-> PyNone]
             ELSE IF Head(property_data.relation) \in DOMAIN suit_cache
             THEN [raised |-> "none",
                   value |-> PyStr(suit_cache[Head(property_data.relation)])]
             ELSE [raised |-> "ValueError"]
      [] OTHER -> [raised |-> "none", value |-> PyNone]

\* The loop over fields giving "" to a field that is no property of the page.
field_value_empty_for_missing(page_properties, notion_field_name, suit_cache) ==
    IF notion_field_name \notin DOMAIN field_map THEN [raised |-> "KeyError"]
    ELSE IF notion_field_name \in DOMAIN page_properties
    THEN extract_simple_field_value(page_properties[notion_field_name],
                                    page_properties[notion_field_name].type, suit_cache)
    ELSE [raised |-> "none", value |-> PyStr(<<>>)]

\* One turn of the loop over fields (lines 167-180): what page_data gets
\* under field_map[notion_field_name], or the exception raised.
field_value(page_properties, notion_field_name, suit_cache) ==
    IF notion_field_name \notin DOMAIN field_map THEN [raised |-> "KeyError"]
    ELSE IF notion_field_name \in DOMAIN page_properties
    THEN extract_simple_field_value(page_properties[notion_field_name],
                                    page_properties[notion_field_name].type, suit_cache)
    ELSE [raised |-> "none", value |-> PyNone]

\* The page_data of a page (lines 164-180): a dict from the slugs of the
\* fields; a later field of the same slug replaces the earlier one.
page_data_of(result_page, fields, suit_cache) ==
    LET got == [k \in 1..Len(fields) |-> field_value(result_page.properties, fields[k], suit_cache)]
    IN  IF \E k \in 1..Len(fields) : got[k].raised # "none"
        THEN [raised |-> got[CHOOSE k \in 1..Len(fields) :
                                /\ got[k].raised # "none"
                                /\ \A j \in 1..(k - 1) : got[j].raised = "none"].raised]
        ELSE [raised |-> "none",
              data |-> [slug \in {field_map[fields[k]] : k \in 1..Len(fields)} |->
                           got[CHOOSE k \in 1..Len(fields) :
                                  /\ field_map[fields[k]] = slug
                                  /\ \A j \in (k + 1)..Len(fields) :
                                        field_map[fields[j]] # slug].value]]

\* fetch_notion_card_database(fields=fields) on a response and a suit cache:
\* the list of records, or Exception for whatever was raised on the way.
fetch_notion_card_database(fields, response, suit_cache) ==
    LET requested == IF fields = PyNone
                     THEN [k \in 1..Len(DATABASE_FIELDS) |-> DATABASE_FIELDS[k][2]]
                     ELSE fields.v
        made == [n \in 1..Len(response.results) |->
                    page_data_of(response.results[n], requested, suit_cache)]
    IN  IF \E n \in 1..Len(made) : made[n].raised # "none"
        THEN [raised |-> "Exception"]
        ELSE [raised |-> "none", results |-> [n \in 1..Len(made) |-> made[n].data]]

\* Pages of the card database: complete with a cached suit; without a name
\* and with a suit that is not in the cache; with an empty title, no suit
\* related, no number and a property of an unsupported type; without
\* properties.
SamplePages ==
    { [id |-> "p1",
       properties |->
           [f \in {"Nom", "Type de carte", "Points", "Description"} |->
               CASE f = "Nom" -> [type |-> "title", title |-> << <<"A">>, <<" ", "b">> >>]
                 [] f = "Type de carte" -> [type |-> "relation", relation |-> <<"s1", "x9">>]
                 [] f = "Points" -> [type |-> "number", number |-> PyNum(7)]
                 [] f = "Description" -> [type |-> "rich_text", rich_text |-> << <<"a">> >>]]],
      [id |-> "p2",
       properties |->
           [f \in {"Type de carte", "Points"} |->
               CASE f = "Type de carte" -> [type |-> "relation", relation |-> <<"x9">>]
                 [] f = "Points" -> [type |-> "number", number |-> PyNum(0)]]],
      [id |-> "p3",
       properties |->
           [f \in {"Nom", "Type de carte", "Points", "AI image prompt"} |->
               CASE f = "Nom" -> [type |-> "title", title |-> <<>>]
                 [] f = "Type de carte" -> [type |-> "relation", relation |-> <<>>]
                 [] f = "Points" -> [type |-> "number", number |-> PyNone]
                 [] f = "AI image prompt" -> [type |-> "files"]]],
      [id |-> "p4", properties |-> [f \in {} |-> PyNone]] }

\* Every response of at most n pages.
RECURSIVE Responses(_)
Responses(n) ==
    IF n = 0 THEN {[results |-> <<>>]}
    ELSE LET shorter == Responses(n - 1)
         IN  shorter \cup { [results |-> Append(r.results, result_page)] :
                                r \in {q \in shorter : Len(q.results) = n - 1},
                                result_page \in SamplePages }

\* fields: not given, the test's ["Nom"], two fields, one field twice, the
\* relation alone, a name that is no field of the database.
SampleFields ==
    {PyNone, PyList(<<"Nom">>), PyList(<<"Points", "Nom">>),
     PyList(<<"Nom", "Description", "Nom">>), PyList(<<"Type de carte">>),
     PyList(<<"Couleur">>)}

NotionInit ==
    /\ FontIdle /\ JustifyIdle /\ CardIdle /\ DriverIdle /\ ImageIdle /\ SaveIdle
    /\ nt_args \in [fields : SampleFields,
                    response : Responses(MaxPages),
                    suit_cache : {[id \in {"s1"} |-> <<"C", "h", "a", "t">>],
                                  [id \in {} |-> <<>>]}]
    /\ nt_pc = "ready"
    /\ nt_result = <<>>

FetchNotionCardDatabase ==
    /\ nt_pc = "ready"
    /\ \E fetched \in {fetch_notion_card_database(nt_args.fields, nt_args.response,
                                                  nt_args.suit_cache)} :
          IF fetched.raised = "none"
          THEN nt_result' = fetched.results /\ nt_pc' = "returned"
          ELSE nt_result' = <<>> /\ nt_pc' = "raised"
    /\ UNCHANGED <<fs_vars, jt_vars, cc_vars, dr_vars, im_vars, sc_vars, nt_args>>

SpecNotion == NotionInit /\ [][FetchNotionCardDatabase]_vars

\* The fields asked for: DATABASE_FIELDS when fields is not given.
RequestedFields ==
    IF nt_args.fields = PyNone
    THEN {DATABASE_FIELDS[k][2] : k \in 1..Len(DATABASE_FIELDS)}
    ELSE {nt_args.fields.v[k] : k \in 1..Len(nt_args.fields.v)}

\* C23: when fetch_notion_card_database(fields=F) returns, it returns one
\* record per page of the response, in the order of the response (the name of
\* record n is the joined title of page n); the keys of every record are
\* exactly the slugs of the fields F (only "name" for F = ["Nom"]); a field
\* that is no property of the page has the value None.
C23_RecordsOfPages ==
    nt_pc = "returned" =>
        /\ Len(nt_result) = Len(nt_args.response.results)
        /\ \A n \in 1..Len(nt_result) :
              LET page_properties == nt_args.response.results[n].properties
              IN  /\ DOMAIN nt_result[n] = {field_map[f] : f \in RequestedFields}
                  /\ nt_args.fields = PyList(<<"Nom">>) => DOMAIN nt_result[n] = {"name"}
                  /\ \A f \in RequestedFields \ DOMAIN page_properties :
                        nt_result[n][field_map[f]] = PyNone
                  /\ ("Nom" \in RequestedFields \cap DOMAIN page_properties)
                        => nt_result[n].name =
                               PyStr(join_plain_text(page_properties["Nom"].title))

\* The test's call, fields = ["Nom"], has returned two records: the first
\* holds the name of the first page, the second None, its page having no
\* name.
C23_Witness ==
    /\ nt_pc = "returned"
    /\ nt_args.fields = PyList(<<"Nom">>)
    /\ Len(nt_result) = 2
    /\ nt_result[1] = [slug \in {"name"} |-> PyStr(<<"A", " ", "b">>)]
    /\ nt_result[2] = [slug \in {"name"} |-> PyNone]
    /\ DOMAIN nt_args.response.results[1].properties # {"Nom"}

(***************************************************************************)
(* More claims about create_card and the functions it uses.                *)
(***************************************************************************)
\* The draws of the numeric badge, in the order they were made.
NumberOps == SelectSeq(card, LAMBDA o : o.what \in {"number_outline", "number"})

\* The offset of the i-th badge draw from the last one.
BadgeOffset(i) ==
    <<NumberOps[i].xy[1] - NumberOps[Len(NumberOps)].xy[1],
      NumberOps[i].xy[2] - NumberOps[Len(NumberOps)].xy[2]>>

\* C24: the numeric badge is rendered by exactly 9 draws of the same digits,
\* str(force): the first 8 in the outline colour, at the 8 offsets (dx, dy)
\* with dx, dy in {-2, 0, 2} other than (0, 0) from the centred position,
\* each offset once; then one draw in the fill colour at the centred
\* position; no outline draw follows the fill draw.  Before the badge step
\* there is no badge draw.
C24_OutlineThenFill ==
    /\ Len(NumberOps) \in {0, 9}
    /\ cc_pc \in {"description", "mask", "returned"} => Len(NumberOps) = 9
    /\ Len(NumberOps) = 9 =>
          /\ \A i \in 1..8 :
                /\ NumberOps[i].what = "number_outline"
                /\ NumberOps[i].colors = << <<0, 0, 0>> >>
                /\ NumberOps[i].text = str(cc_args.force)
          /\ {BadgeOffset(i) : i \in 1..8} =
                 ({-2, 0, 2} \X {-2, 0, 2}) \ {<<0, 0>>}
          /\ NumberOps[9].what = "number"
          /\ NumberOps[9].colors = << <<255, 255, 255>> >>
          /\ NumberOps[9].text = str(cc_args.force)
          /\ LET num_bbox == textbbox(str(cc_args.force), truetype(55))
             IN  NumberOps[9].xy[1] = (3 + 150 \div 2) - (num_bbox[3] - num_bbox[1]) \div 2

\* The badge of force 99 has been drawn and the build has returned.
C24_Witness ==
    /\ cc_pc = "returned"
    /\ cc_args.force = 99
    /\ Len(NumberOps) = 9
    /\ NumberOps[9].text = <<"9", "9">>
    /\ BadgeOffset(1) = <<-2, -2>>

\* The words of a text, found by their places: a word is a longest stretch
\* without whitespace.
WordSpans(text) ==
    { span \in (1..Len(text)) \X (1..Len(text)) :
        /\ span[1] <= span[2]
        /\ \A k \in span[1]..span[2] : ~IsSpace(text[k])
        /\ span[1] = 1 \/ IsSpace(text[span[1] - 1])
        /\ span[2] = Len(text) \/ IsSpace(text[span[2] + 1]) }

WordsOf(text) ==
    [n \in 1..Cardinality(WordSpans(text)) |->
        LET span == CHOOSE sp \in WordSpans(text) :
                        Cardinality({o \in WordSpans(text) : o[1] < sp[1]}) = n - 1
        IN  SubSeq(text, span[1], span[2])]

\* The words of the lines, one line after the other.
RECURSIVE Flatten(_)
Flatten(ls) == IF ls = <<>> THEN <<>> ELSE Head(ls) \o Flatten(Tail(ls))

\* C25: the line breaking of _draw_justified_text loses and duplicates
\* nothing: the words of the produced lines, in order, are exactly the
\* whitespace-separated words of the text, and no produced line is empty.
C25_NoWordLost ==
    jt_pc = "returned" =>
        /\ Flatten(lines) = WordsOf(jt_text)
        /\ \A i \in 1..Len(lines) : lines[i] # <<>>

\* A text that starts with whitespace and holds two spaces in a row has been
\* broken into several lines, one of them of several words.
C25_Witness ==
    /\ jt_pc = "returned"
    /\ Len(lines) >= 2
    /\ \E i \in 1..Len(lines) : Len(lines[i]) >= 2
    /\ IsSpace(jt_text[1])
    /\ \E k \in 1..(Len(jt_text) - 1) : IsSpace(jt_text[k]) /\ IsSpace(jt_text[k + 1])

\* C26: for every text length and every argument set with min_len < max_len
\* and min_size <= max_size, determine_font_size returns a size in the closed
\* range [min_size, max_size].
C26_SizeInRange ==
    (fs_pc = "returned" /\ fs_args.min_char_size < fs_args.max_char_size
                        /\ fs_args.min_font_size <= fs_args.max_font_size)
        => /\ fs_args.min_font_size <= font_size
           /\ font_size <= fs_args.max_font_size

\* A direct call with a text strictly between the thresholds whose exact size
\* is negative and no integer, so that int() rounds it up towards zero.
C26_Witness ==
    /\ fs_pc = "returned" /\ fs_site = "generic"
    /\ text_length > fs_args.min_char_size /\ text_length < fs_args.max_char_size
    /\ ScaledInterpolation < 0
    /\ ScaledInterpolation % (fs_args.max_char_size - fs_args.min_char_size) # 0
    /\ fs_args.min_font_size < font_size /\ font_size <= fs_args.max_font_size

====
